---- MODULE Spec2Model ----
(***************************************************************************)
(* Weekly announcement bot: the JobScheduler loops (bot/scheduler),         *)
(* the announcement sender and its pending-event-type state                 *)
(* (bot/announcement/sender.py, bot/config/settings.py) and the Discord     *)
(* client that wires them together (bot/client.py).                         *)
(*                                                                          *)
(* Time is counted in ticks.  A day has TicksPerDay ticks, day 0 is a       *)
(* Monday.  datetime.now() has a finer resolution than the HH:MM values     *)
(* kept in the settings: a settings time is a whole number of minutes,      *)
(* i.e. a multiple of TicksPerMinute ticks, while "now" is any tick.        *)
(***************************************************************************)
EXTENDS Integers, Sequences, FiniteSets, TLC

\* ------------------------------------------------------------------ bounds
TicksPerMinute == 1
MinutesPerDay == 2
MaxTime == 22
MaxReady == 2
MaxCalcDay == 8
MaxSlow == 1
MaxRouted == 2
MaxCalls == 2

TicksPerDay == TicksPerMinute * MinutesPerDay

\* ------------------------------------------------------- datetime helpers
\* datetime.date() / datetime.time() / datetime.weekday() of an instant
DateOf(t) == t \div TicksPerDay
TimeOf(t) == t % TicksPerDay
WeekdayOf(t) == DateOf(t) % 7
\* datetime.combine(date, time)
Combine(date, tm) == date * TicksPerDay + tm

\* datetime.time(hour, minute): a whole minute of the day
MinuteTimes == {m * TicksPerMinute : m \in 0..(MinutesPerDay - 1)}

\* ------------------------------------------------------------- weekdays
VALID_WEEKDAYS == <<"Mon", "Tue", "Wed", "Thu", "Fri", "Sat", "Sun">>
WeekdayNames == {VALID_WEEKDAYS[i] : i \in 1..7}

WEEKDAY_MAP ==
  [w \in WeekdayNames |->
     CHOOSE i \in 0..6 : VALID_WEEKDAYS[i + 1] = w]

\* WEEKDAY_MAP.get(name, default)
WeekdayMapGet(name, default) ==
  IF name \in DOMAIN WEEKDAY_MAP THEN WEEKDAY_MAP[name] ELSE default

ThuDefault == 3
SunDefault == 6

\* a weekday setting that is no string: SettingsManager.load stores any TOML
\* value it finds under the key, e.g. the array ["Thu"], and a list is not
\* hashable, so WEEKDAY_MAP.get raises TypeError for it
UnhashableWeekday == "[Thu]"

\* ------------------------------------------------------------------ text
\* a str is a sequence of characters
Digits == <<"0", "1", "2", "3", "4", "5", "6", "7", "8", "9">>
IsDigit(c) == \E n \in 1..10 : Digits[n] = c
DigitVal(c) == (CHOOSE n \in 1..10 : Digits[n] = c) - 1

\* str.strip(): white space removed at both ends
Whitespace == {" ", "\n"}

RECURSIVE LStrip(_)
LStrip(str) ==
  IF str # << >> /\ Head(str) \in Whitespace THEN LStrip(Tail(str)) ELSE str

RECURSIVE RStrip(_)
RStrip(str) ==
  IF str # << >> /\ str[Len(str)] \in Whitespace
  THEN RStrip(SubSeq(str, 1, Len(str) - 1))
  ELSE str

Strip(str) == RStrip(LStrip(str))

\* the text a pattern ending in "$" has to cover: "$" matches at the end of
\* the string and also just before a newline that ends it
BeforeFinalNewline(str) ==
  IF str # << >> /\ str[Len(str)] = "\n" THEN SubSeq(str, 1, Len(str) - 1) ELSE str

\* ([0-5][0-9])
MinuteText(a, b) == a \in {"0", "1", "2", "3", "4", "5"} /\ IsDigit(b)

\* ([0-1][0-9]|2[0-3])
HourText(a, b) ==
  \/ a \in {"0", "1"} /\ IsDigit(b)
  \/ a = "2" /\ b \in {"0", "1", "2", "3"}

\* re.match of ^([0-1][0-9]|2[0-3]):([0-5][0-9])$
StrictTimeMatch(str) ==
  LET b == BeforeFinalNewline(str)
  IN  /\ Len(b) = 5
      /\ HourText(b[1], b[2])
      /\ b[3] = ":"
      /\ MinuteText(b[4], b[5])

\* mutant: a pattern of digits only, \\d{1,2}:\\d{2}
CogTimeMatch_AnyDigits(str) ==
  LET b == BeforeFinalNewline(str)
  IN  \/ /\ Len(b) = 5
         /\ IsDigit(b[1]) /\ IsDigit(b[2])
         /\ b[3] = ":"
         /\ IsDigit(b[4]) /\ IsDigit(b[5])
      \/ /\ Len(b) = 4
         /\ IsDigit(b[1])
         /\ b[2] = ":"
         /\ IsDigit(b[3]) /\ IsDigit(b[4])

\* re.match of ^([01]?[0-9]|2[0-3]):([0-5][0-9])$
CogTimeMatch(str) ==
  LET b == BeforeFinalNewline(str)
  IN  \/ /\ Len(b) = 5
         /\ HourText(b[1], b[2])
         /\ b[3] = ":"
         /\ MinuteText(b[4], b[5])
      \/ /\ Len(b) = 4
         /\ IsDigit(b[1])
         /\ b[2] = ":"
         /\ MinuteText(b[3], b[4])

\* datetime.time(hour, minute) as the instant of the day it denotes
TimeValue(hour, minute) == (hour * 60 + minute) * TicksPerMinute

NoTime == -1

\* time(int(match.group(1)), int(match.group(2))) for a match of the strict
\* pattern, None without a match
ParseTime(str) ==
  IF StrictTimeMatch(str)
  THEN TimeValue(DigitVal(str[1]) * 10 + DigitVal(str[2]),
                 DigitVal(str[4]) * 10 + DigitVal(str[5]))
  ELSE NoTime

\* f"{v.hour:02d}:{v.minute:02d}"
FormatTime(t) ==
  LET hour == (t \div TicksPerMinute) \div 60
      minute == (t \div TicksPerMinute) % 60
  IN  <<Digits[(hour \div 10) + 1], Digits[(hour % 10) + 1], ":",
        Digits[(minute \div 10) + 1], Digits[(minute % 10) + 1]>>

\* the text of each weekday code
WeekdayText ==
  [w \in WeekdayNames |->
     CASE w = "Mon" -> <<"M", "o", "n">>
       [] w = "Tue" -> <<"T", "u", "e">>
       [] w = "Wed" -> <<"W", "e", "d">>
       [] w = "Thu" -> <<"T", "h", "u">>
       [] w = "Fri" -> <<"F", "r", "i">>
       [] w = "Sat" -> <<"S", "a", "t">>
       [] w = "Sun" -> <<"S", "u", "n">>]

\* "weekday in VALID_WEEKDAYS" for a text, and the code it then is
IsWeekdayText(str) == \E w \in WeekdayNames : WeekdayText[w] = str
WeekdayCode(str) == CHOOSE w \in WeekdayNames : WeekdayText[w] = str

\* ------------------------------------------------------- ConfigManager
EmptyMap == [k \in {} |-> 0]

\* the default configuration file (config.toml), settings section
BaseConfig ==
  [settings |-> [confirm_time     |-> <<"2", "1", ":", "3", "0">>,
                 announce_time    |-> <<"2", "1", ":", "3", "0">>,
                 confirm_weekday  |-> "Thu",
                 announce_weekday |-> "Sun",
                 default_url      |-> "https://default"]]

HasKey(cfg, section, key) ==
  section \in DOMAIN cfg /\ key \in DOMAIN cfg[section]

\* mutant: the base configuration is looked up before the overrides
ConfigGet_BaseFirst(ov, section, key, default) ==
  IF HasKey(BaseConfig, section, key) THEN BaseConfig[section][key]
  ELSE IF HasKey(ov, section, key) THEN ov[section][key]
  ELSE default

\* ConfigManager.get with the overrides ov
ConfigGet(ov, section, key, default) ==
  IF HasKey(ov, section, key) THEN ov[section][key]
  ELSE IF HasKey(BaseConfig, section, key) THEN BaseConfig[section][key]
  ELSE default

\* a mapping without one of its keys / with one key set
Without(f, key) == [k \in (DOMAIN f) \ {key} |-> f[k]]
With(f, key, value) ==
  [k \in (DOMAIN f) \cup {key} |-> IF k = key THEN value ELSE f[k]]

\* mutant: every value is stored, the value of the base configuration too
ConfigSet_AlwaysStores(ov, section, key, value) ==
  LET ov1 == IF section \in DOMAIN ov THEN ov ELSE With(ov, section, EmptyMap)
  IN  With(ov1, section, With(ov1[section], key, value))

\* ConfigManager.set: the overrides after set(section, key, value)
ConfigSet(ov, section, key, value) ==
  LET ov1 == IF section \in DOMAIN ov THEN ov ELSE With(ov, section, EmptyMap)
  IN  IF HasKey(BaseConfig, section, key) /\ value = BaseConfig[section][key]
      THEN IF key \in DOMAIN ov1[section]
           THEN IF DOMAIN Without(ov1[section], key) = {}
                THEN Without(ov1, section)
                ELSE With(ov1, section, Without(ov1[section], key))
           ELSE ov1
      ELSE With(ov1, section, With(ov1[section], key, value))

\* ConfigManager.reset: no overrides are left
ConfigReset(ov) == EmptyMap

\* --------------------------------------------------- recurrence calculator
\* mutants of the calculation: ">" for ">=", no roll to next week, a roll
\* whenever the target is today, and a difference taken without "% 7"
DaysAhead_StrictlyPassed(t, target_weekday, target_time) ==
  LET days_ahead == (target_weekday - WeekdayOf(t)) % 7
  IN  IF days_ahead = 0 /\ TimeOf(t) > target_time THEN 7 ELSE days_ahead

DaysAhead_NoRoll(t, target_weekday, target_time) ==
  (target_weekday - WeekdayOf(t)) % 7

DaysAhead_AlwaysRoll(t, target_weekday, target_time) ==
  LET days_ahead == (target_weekday - WeekdayOf(t)) % 7
  IN  IF days_ahead = 0 THEN 7 ELSE days_ahead

DaysAhead_NoModulo(t, target_weekday, target_time) ==
  LET days_ahead == target_weekday - WeekdayOf(t)
  IN  IF days_ahead = 0 /\ TimeOf(t) >= target_time THEN 7 ELSE days_ahead

\* days_ahead of the scheduler loop: (target_weekday - now.weekday()) % 7,
\* rolled to 7 when the slot of today has already passed (>=).
DaysAhead(t, target_weekday, target_time) ==
  LET days_ahead == (target_weekday - WeekdayOf(t)) % 7
  IN  IF days_ahead = 0 /\ TimeOf(t) >= target_time THEN 7 ELSE days_ahead

\* next_run = datetime.combine(now.date() + timedelta(days_ahead), target_time)
NextRun(t, target_weekday, target_time) ==
  Combine(DateOf(t) + DaysAhead(t, target_weekday, target_time), target_time)

\* ------------------------------------------------------------ settings
REGULAR == "REGULAR"
LIGHTNING_TALK == "LIGHTNING_TALK"
REST == "REST"
EventType == {REGULAR, LIGHTNING_TALK, REST}

\* LightningTalkInfo(): speaker, title and url default to ""
EmptyLtInfo == [speaker |-> "", title |-> "", url |-> ""]

\* LightningTalkInfo.is_complete
LtIsComplete(lt) == lt.speaker # "" /\ lt.title # "" /\ lt.url # ""

\* LightningTalkInfo.clear
LtClear(lt) == [lt EXCEPT !.speaker = "", !.title = "", !.url = ""]

\* None, the value of an LTInfo field that was never set
None == "<None>"

\* LTInfo(): speaker_name, title and url default to None
NoLTInfo == [speaker_name |-> None, title |-> None, url |-> None]

\* LTInfo.is_complete
LTInfoIsComplete(lt) == lt.speaker_name # None /\ lt.title # None /\ lt.url # None

\* mutant: clear that forgets the url
LTInfoClear_KeepsUrl(lt) == [lt EXCEPT !.speaker_name = None, !.title = None]

\* LTInfo.clear
LTInfoClear(lt) == NoLTInfo

\* bool(v) of a str | None
Truthy(v) == v # None /\ v # ""

Speakers == {"", "A"}
Titles == {"", "B"}
Urls == {"", "https://x"}
LtInfos == [speaker : Speakers, title : Titles, url : Urls]

\* the default action role, "@GesonAnko"
DefaultRole == <<"@", "G">>

\* time(21, 30) on the scaled day: the last whole minute of the day
DefaultTime == (MinutesPerDay - 1) * TicksPerMinute

\* channel ids in the settings: 0 is "not set"
ChannelIds == {0, 1}

\* BotSettings() with the channel ids read from the config file
DefaultSettings(action_channel, announce_channel) ==
  [ announce_time       |-> DefaultTime,
    confirm_time        |-> DefaultTime,
    action_role         |-> DefaultRole,
    confirm_weekday     |-> "Thu",
    announce_weekday    |-> "Sun",
    default_url         |-> "https://default",
    action_channel_id   |-> action_channel,
    announce_channel_id |-> announce_channel,
    lt_info             |-> EmptyLtInfo,
    next_event_type     |-> REGULAR ]

\* ------------------------------------------------------------ emojis
Emojis == {"thumbsup", "zap", "zzz", "other"}

\* mutants: the sleep emoji is not recognised; the emoji is only honoured
\* while the pending type is still the default
ProcessConfirmationReaction_NoRest(emoji, s) ==
  IF emoji = "thumbsup" THEN [s EXCEPT !.next_event_type = REGULAR]
  ELSE IF emoji = "zap" THEN [s EXCEPT !.next_event_type = LIGHTNING_TALK]
  ELSE s

ProcessConfirmationReaction_FirstWins(emoji, s) ==
  IF s.next_event_type # REGULAR THEN s
  ELSE IF emoji = "thumbsup" THEN [s EXCEPT !.next_event_type = REGULAR]
  ELSE IF emoji = "zap" THEN [s EXCEPT !.next_event_type = LIGHTNING_TALK]
  ELSE IF emoji = "zzz" THEN [s EXCEPT !.next_event_type = REST]
  ELSE s

\* AnnouncementSender.process_confirmation_reaction
ProcessConfirmationReaction(emoji, s) ==
  IF emoji = "thumbsup" THEN [s EXCEPT !.next_event_type = REGULAR]
  ELSE IF emoji = "zap" THEN [s EXCEPT !.next_event_type = LIGHTNING_TALK]
  ELSE IF emoji = "zzz" THEN [s EXCEPT !.next_event_type = REST]
  ELSE s

\* what process_confirmation_reaction reports for a reaction: an info line
\* of the logger for a recognised emoji, nothing otherwise; it never reads
\* the LT info
ReactionLog(emoji, s) ==
  IF emoji \in {"thumbsup", "zap", "zzz"} THEN "info" ELSE "none"

\* ------------------------------------------------------------ sender
\* AnnouncementSender.send_announcement up to "await channel.send(message)";
\* found tells whether client.get_channel returns a channel.
\* "no_channel" / "not_found" / "lt_incomplete" are the early "return False",
\* otherwise the event type whose template was formatted.
SendAnnouncementBegin(s, found) ==
  IF s.announce_channel_id = 0 THEN "no_channel"
  ELSE IF ~found THEN "not_found"
  ELSE IF s.next_event_type = REGULAR THEN REGULAR
  ELSE IF s.next_event_type = LIGHTNING_TALK
       THEN IF ~LtIsComplete(s.lt_info) THEN "lt_incomplete" ELSE LIGHTNING_TALK
  ELSE REST

\* mutant: the LT info is kept after a lightning talk announcement
SendAnnouncementSent_KeepsLtInfo(s) == [s EXCEPT !.next_event_type = REGULAR]

\* AnnouncementSender.send_announcement after channel.send returned:
\* the LT info is cleared when the pending type is (still) LIGHTNING_TALK,
\* and the pending type is reset to REGULAR.
SendAnnouncementSent(s) ==
  LET s1 == IF s.next_event_type = LIGHTNING_TALK
            THEN [s EXCEPT !.lt_info = LtClear(s.lt_info)]
            ELSE s
  IN  [s1 EXCEPT !.next_event_type = REGULAR]

\* AnnouncementSender.send_confirmation_message up to "await channel.send"
SendConfirmationBegin(s, found) ==
  IF s.action_channel_id = 0 THEN "no_channel"
  ELSE IF ~found THEN "not_found"
  ELSE "send"

\* SettingsManager.save: the settings without the runtime fields, the times
\* written as HH:MM
Persisted(s) ==
  [ announce_time       |-> FormatTime(s.announce_time),
    confirm_time        |-> FormatTime(s.confirm_time),
    action_role         |-> s.action_role,
    confirm_weekday     |-> s.confirm_weekday,
    announce_weekday    |-> s.announce_weekday,
    default_url         |-> s.default_url,
    action_channel_id   |-> s.action_channel_id,
    announce_channel_id |-> s.announce_channel_id ]

\* the number a text of digits denotes
RECURSIVE DigitsValue(_)
DigitsValue(str) ==
  IF str = << >> THEN 0
  ELSE DigitsValue(SubSeq(str, 1, Len(str) - 1)) * 10 + DigitVal(str[Len(str)])

NoInt == -1

\* int(text): the number, NoInt when int raises ValueError
IntOf(str) ==
  LET b == Strip(str)
  IN  IF b # << >> /\ \A k \in 1..Len(b) : IsDigit(b[k]) THEN DigitsValue(b) ELSE NoInt

\* value.split(":")
RECURSIVE Split(_)
Split(str) ==
  IF \A k \in 1..Len(str) : str[k] # ":" THEN <<str>>
  ELSE LET k == CHOOSE i \in 1..Len(str) :
                  str[i] = ":" /\ \A j \in 1..(i - 1) : str[j] # ":"
       IN  <<SubSeq(str, 1, k - 1)>> \o Split(SubSeq(str, k + 1, Len(str)))

\* mutant: the minute of a stored time is not read back
LoadTime_HourOnly(str) ==
  LET parts == Split(str)
  IN  IF Len(parts) # 2 THEN NoTime
      ELSE IF IntOf(parts[1]) = NoInt \/ IntOf(parts[2]) = NoInt THEN NoTime
      ELSE IF IntOf(parts[1]) > 23 \/ IntOf(parts[2]) > 59 THEN NoTime
      ELSE TimeValue(IntOf(parts[1]), 0)

\* hour, minute = map(int, value.split(":")); time(hour, minute), with
\* NoTime when the unpacking, int or time raises
LoadTime(str) ==
  LET parts == Split(str)
  IN  IF Len(parts) # 2 THEN NoTime
      ELSE IF IntOf(parts[1]) = NoInt \/ IntOf(parts[2]) = NoInt THEN NoTime
      ELSE IF IntOf(parts[1]) > 23 \/ IntOf(parts[2]) > 59 THEN NoTime
      ELSE TimeValue(IntOf(parts[1]), IntOf(parts[2]))

\* SettingsManager.load on a new SettingsManager: the keys of the file are
\* set one after the other on BotSettings(), in the order save wrote them;
\* an exception ends the loop and what was set so far is kept
Load(file) ==
  LET d == DefaultSettings(0, 0)
      a == LoadTime(file.announce_time)
      c == LoadTime(file.confirm_time)
  IN  IF a = NoTime THEN d
      ELSE IF c = NoTime THEN [d EXCEPT !.announce_time = a]
      ELSE [d EXCEPT !.announce_time       = a,
                     !.confirm_time        = c,
                     !.action_role         = file.action_role,
                     !.confirm_weekday     = file.confirm_weekday,
                     !.announce_weekday    = file.announce_weekday,
                     !.default_url         = file.default_url,
                     !.action_channel_id   = file.action_channel_id,
                     !.announce_channel_id = file.announce_channel_id]

\* ------------------------------------------------------------ scheduler
JobTypes == {"confirm", "announce"}

\* outcomes of an awaited Discord call inside a job:
\* it returns, raises discord.DiscordException, or raises another Exception
Outcomes == {"ok", "discord_error", "error"}

VARIABLES
  now,          \* wall clock, datetime.now()
  calc,         \* one evaluation of the recurrence calculation
  settings,     \* AnnouncementBot.settings (BotSettings)
  config_file,  \* what SettingsManager.save last wrote
  confirmation_message_id,  \* AnnouncementBot.confirmation_message_id (0 is None)
  scheduler,    \* AnnouncementBot.scheduler (0 is None, else index in schedulers)
  schedulers,   \* every JobScheduler object created so far
  tasks,        \* every asyncio task created by JobScheduler.start
  next_message_id,  \* id of the next confirmation message (ids count from 1)
  fired,        \* history: how often the jobs of a type ran for an occurrence
  raised,       \* history: the task whose job raised an exception last (0: none)
  quiet,        \* history: a confirmation message was sent, and since then no
                \* user reacted and the announcement job did not fire
  routed,       \* history: the reactions routed to the sender since the last
                \* other call on the bot
  lt_info,      \* AnnouncementService.lt_info (LTInfo)
  frontend,     \* the command module the bot runs: "prefix" (commands/settings.py),
                \* "slash" (commands/settings_commands.py) or "cog" (config_cog.py)
  overrides,    \* ConfigManager.overrides: section -> key -> value
  scheduled,    \* the calls of scheduler.schedule_daily_task made by the config cog
  caller,       \* history: interaction.user of the last command of a cog
  last_event    \* history: the handler or loop step that ran last

vars == <<now, calc, settings, config_file, confirmation_message_id, scheduler,
          schedulers, tasks, next_message_id, fired, raised, quiet, routed, frontend,
          overrides, scheduled, lt_info, caller, last_event>>

botvars == <<settings, config_file, confirmation_message_id, scheduler,
             schedulers, tasks, next_message_id, fired, raised, quiet, routed, frontend,
          overrides, scheduled, lt_info, caller, last_event>>

cogvars == <<frontend, overrides, scheduled, lt_info>>

\* ------------------------------------------------------------ bot state
\* interaction.user: a discord.Member with the names of its roles, or a
\* user that is no Member of the guild
NoUser == [member |-> FALSE, roles |-> {}]

Users ==
  {NoUser} \cup {[member |-> TRUE, roles |-> r] :
                   r \in {{"Guest"}, {"Administrator"}, {"Moderator"}, {"LT"}}}

NoEvent ==
  [op |-> "init", type |-> "", task |-> 0, msg |-> 0, bot |-> FALSE, log |-> "none",
   arg |-> << >>, date |-> 0]

Event(op, type) == [NoEvent EXCEPT !.op = op, !.type = type]

TaskEvent(op, type, i) == [NoEvent EXCEPT !.op = op, !.type = type, !.task = i]

NeverFired == [occurrence |-> -1, count |-> 0]

\* AnnouncementBot.__init__: the settings are loaded from the config file
\* (the runtime fields are never in it), sender and scheduler are None and
\* no confirmation message is known.
BotInit ==
  /\ \E a \in ChannelIds, b \in ChannelIds :
       /\ settings = DefaultSettings(a, b)
       /\ config_file = Persisted(DefaultSettings(a, b))
  /\ confirmation_message_id = 0
  /\ scheduler = 0
  /\ schedulers = << >>
  /\ tasks = << >>
  /\ next_message_id = 1
  /\ fired = [jt \in JobTypes |-> NeverFired]
  /\ raised = 0
  /\ quiet = FALSE
  /\ routed = << >>
  /\ overrides = EmptyMap
  /\ scheduled = << >>
  /\ lt_info = NoLTInfo
  /\ caller = NoUser
  /\ last_event = NoEvent

\* a task created by asyncio.create_task(self._run_jobs_on_schedule(job_type))
\* cancel: task.cancel() was called and the CancelledError is not yet delivered
\* ran: history, the jobs called so far in the firing under way or last over
NewTask(job_type, sched) ==
  [job_type |-> job_type, sched |-> sched, pc |-> "top", wake |-> 0, job |-> 0,
   sent |-> "", cancel |-> FALSE, ran |-> << >>]

\* JobScheduler(settings) followed by add_confirmation_job / add_announcement_job
\* and start(): running is set and one task per job type is created.
NewScheduler(first_task) ==
  [running |-> TRUE,
   jobs    |-> [confirm |-> <<"confirmation_job">>, announce |-> <<"announcement_job">>],
   tasks   |-> <<first_task, first_task + 1>>]

\* AnnouncementBot.on_ready: a new sender and a new JobScheduler replace the
\* ones the bot holds, the two jobs are registered and the scheduler started.
\* The scheduler held before is dropped without being stopped.
OnReady ==
  /\ Len(schedulers) < MaxReady
  /\ schedulers' = Append(schedulers, NewScheduler(Len(tasks) + 1))
  /\ scheduler' = Len(schedulers) + 1
  /\ tasks' = tasks \o <<NewTask("confirm", Len(schedulers) + 1),
                         NewTask("announce", Len(schedulers) + 1)>>
  /\ last_event' = Event("on_ready", "")
  /\ UNCHANGED <<now, calc, settings, config_file, confirmation_message_id,
                 next_message_id, fired, raised, quiet, routed>>
  /\ UNCHANGED cogvars
  /\ UNCHANGED caller

\* ------------------------------------------------------ the scheduler loop
\* the target weekday and time a loop reads from the settings
TargetWeekday(job_type, s) ==
  IF job_type = "confirm"
  THEN WeekdayMapGet(s.confirm_weekday, ThuDefault)
  ELSE WeekdayMapGet(s.announce_weekday, SunDefault)

\* mutant: the loop keeps the time the settings had when the bot was built
TargetTime_Default(job_type, s) == DefaultTime

TargetTime(job_type, s) ==
  IF job_type = "confirm" THEN s.confirm_time ELSE s.announce_time

GuardSleep == 1

\* asyncio.sleep(10) before the loop tries again after an exception
RetrySleep == 1

\* the computation of the next run raises an exception
CalcRaises(job_type, s) ==
  IF job_type = "confirm" THEN s.confirm_weekday = UnhashableWeekday
  ELSE s.announce_weekday = UnhashableWeekday

\* mutant: an exception outside the jobs ends the loop
CalcFailed_EndsLoop(t) == [t EXCEPT !.pc = "done"]

\* "except Exception" of the loop: the error is logged and the task sleeps
\* before it goes round the loop again
CalcFailed(t) == [t EXCEPT !.pc = "retry", !.wake = now + RetrySleep]

\* a task that the event loop runs without time passing: a new task, a task
\* between two jobs, or a task whose sleep is over
Due(t) ==
  \/ t.pc # "done" /\ t.cancel
  \/ t.pc \in {"top", "run"}
  \/ t.pc \in {"sleep", "guard", "retry"} /\ t.wake <= now

\* _run_jobs_on_schedule from "while self.running" to the first sleep:
\* entered by a new task and after the guard sleep.
LoopIterate(i) ==
  /\ i \in 1..Len(tasks)
  /\ ~tasks[i].cancel
  /\ \/ tasks[i].pc = "top"
     \/ tasks[i].pc \in {"guard", "retry"} /\ tasks[i].wake <= now
  /\ IF ~schedulers[tasks[i].sched].running
     THEN /\ tasks' = [tasks EXCEPT ![i].pc = "done"]
          /\ last_event' = Event("iterate", "")
     ELSE IF CalcRaises(tasks[i].job_type, settings)
     THEN /\ tasks' = [tasks EXCEPT ![i] = CalcFailed(tasks[i])]
          /\ last_event' = [TaskEvent("calc_raised", tasks[i].pc, i) EXCEPT
                              !.log = "error"]
     ELSE /\ tasks' = [tasks EXCEPT ![i].pc = "sleep",
                                    ![i].ran = << >>,
                                    ![i].wake = NextRun(now,
                                                        TargetWeekday(tasks[i].job_type, settings),
                                                        TargetTime(tasks[i].job_type, settings))]
          /\ last_event' = Event("iterate", "")
  /\ UNCHANGED <<now, calc, settings, config_file, confirmation_message_id,
                 scheduler, schedulers, next_message_id, fired, raised, quiet, routed>>
  /\ UNCHANGED cogvars
  /\ UNCHANGED caller

\* the task after its job number k has returned or raised an Exception:
\* the next job of the list, or the guard sleep after the last one
AfterJob(t, k) ==
  IF k < Len(schedulers[t.sched].jobs[t.job_type])
  THEN [t EXCEPT !.pc = "run", !.job = k + 1, !.sent = ""]
  ELSE [t EXCEPT !.pc = "guard", !.wake = now + GuardSleep, !.job = 0, !.sent = ""]

\* one more run of the jobs of a type for the occurrence occ
CountFire(f, occ) ==
  IF f.occurrence = occ THEN [f EXCEPT !.count = f.count + 1]
  ELSE [occurrence |-> occ, count |-> 1]

\* the job of the list a task is about to run
JobOf(t) == schedulers[t.sched].jobs[t.job_type][t.job]

\* ScheduledJobs.confirmation_job / announcement_job called by task t, up to
\* the first "await channel.send": the early returns end the job at once
BeginJob(t, found) ==
  LET r == IF JobOf(t) = "confirmation_job"
           THEN SendConfirmationBegin(settings, found)
           ELSE SendAnnouncementBegin(settings, found)
      called == [t EXCEPT !.ran = Append(@, t.job)]
  IN  IF r \in {"no_channel", "not_found", "lt_incomplete"}
      THEN AfterJob(called, t.job)
      ELSE [called EXCEPT !.pc = "await", !.sent = r]

RECURSIVE RunJobs(_, _)

\* mutant: the for loop over the jobs ends after the first job that awaited
RunJobs_OnlyFirst(t, found) ==
  IF t.pc = "run"
  THEN [t EXCEPT !.pc = "guard", !.wake = now + GuardSleep, !.job = 0, !.sent = ""]
  ELSE t

\* "for job in self.jobs[job_type]": a task that is about to call its next
\* job calls it in the same step, and the one after it when that job returns
\* without awaiting, up to a job that awaits or the end of the list
RunJobs(t, found) ==
  IF t.pc = "run" THEN RunJobs(BeginJob(t, found), found) ELSE t

\* mutant: the jobs of a loop wait until no job of another loop is in flight
LoopWake_Serialized(i, found) ==
  /\ \A j \in 1..Len(tasks) : tasks[j].pc # "await"
  /\ i \in 1..Len(tasks)
  /\ tasks[i].pc = "sleep"
  /\ ~tasks[i].cancel
  /\ tasks[i].wake <= now
  /\ fired' = [fired EXCEPT ![tasks[i].job_type] = CountFire(@, tasks[i].wake)]
  /\ tasks' = [tasks EXCEPT ![i] =
                 IF Len(schedulers[tasks[i].sched].jobs[tasks[i].job_type]) = 0
                 THEN AfterJob(tasks[i], 0)
                 ELSE RunJobs(BeginJob([tasks[i] EXCEPT !.job = 1], found), found)]
  /\ last_event' = TaskEvent("wake", tasks'[i].pc, i)
  /\ quiet' = (quiet /\ tasks[i].job_type # "announce")
  /\ UNCHANGED <<now, calc, settings, config_file, confirmation_message_id,
                 scheduler, schedulers, next_message_id, raised, routed>>
  /\ UNCHANGED cogvars
  /\ UNCHANGED caller

\* asyncio.sleep(seconds_until_next_run) is over: the jobs of the type run,
\* the first one up to its first await
LoopWake(i, found) ==
  /\ i \in 1..Len(tasks)
  /\ tasks[i].pc = "sleep"
  /\ ~tasks[i].cancel
  /\ tasks[i].wake <= now
  /\ fired' = [fired EXCEPT ![tasks[i].job_type] = CountFire(@, tasks[i].wake)]
  /\ tasks' = [tasks EXCEPT ![i] =
                 IF Len(schedulers[tasks[i].sched].jobs[tasks[i].job_type]) = 0
                 THEN AfterJob(tasks[i], 0)
                 ELSE RunJobs(BeginJob([tasks[i] EXCEPT !.job = 1], found), found)]
  /\ last_event' = TaskEvent("wake", tasks'[i].pc, i)
  /\ quiet' = (quiet /\ tasks[i].job_type # "announce")
  /\ UNCHANGED <<now, calc, settings, config_file, confirmation_message_id,
                 scheduler, schedulers, next_message_id, raised, routed>>
  /\ UNCHANGED cogvars
  /\ UNCHANGED caller

\* mutant: an exception of a job is not caught and ends the loop
JobFinished_ExceptionEndsLoop(t, outcome) ==
  IF outcome = "error"
  THEN [t EXCEPT !.pc = "done", !.job = 0, !.sent = ""]
  ELSE AfterJob(t, t.job)

\* the task after the job it awaited is over: an Exception raised by the job
\* is caught and logged, and the loop goes on like after a return
JobFinished(t, outcome) == AfterJob(t, t.job)

\* what a job did with the outcome of its send
ConfirmationResult(outcome) ==
  IF outcome = "ok" THEN "confirmation_sent"
  ELSE IF outcome = "error" THEN "job_raised"
  ELSE "confirmation_failed"

AnnouncementResult(outcome) ==
  IF outcome = "ok" THEN "announcement_sent"
  ELSE IF outcome = "error" THEN "job_raised"
  ELSE "announcement_failed"

\* the awaited send of a job is over.
\* confirmation_job: send_confirmation_message returns the message (ok) or
\*   None (DiscordException); the job drops the result.
\* announcement_job: after a successful send the LT info is cleared when the
\*   pending type is LIGHTNING_TALK, the pending type becomes REGULAR and the
\*   settings are saved; a DiscordException leaves the settings alone.
\* Any other exception leaves the job and is logged by the loop.
JobEnd(i, outcome) ==
  /\ i \in 1..Len(tasks)
  /\ tasks[i].pc = "await"
  /\ ~tasks[i].cancel
  /\ outcome \in Outcomes
  /\ LET t == tasks[i]
     IN  /\ \E found \in BOOLEAN :
              tasks' = [tasks EXCEPT ![i] = RunJobs(JobFinished(t, outcome), found)]
         /\ IF JobOf(t) = "confirmation_job"
            THEN /\ next_message_id' = IF outcome = "ok" THEN next_message_id + 1
                                       ELSE next_message_id
                 /\ last_event' = TaskEvent(ConfirmationResult(outcome), "", i)
                 /\ UNCHANGED <<settings, config_file>>
            ELSE /\ UNCHANGED next_message_id
                 /\ settings' = IF outcome = "ok" THEN SendAnnouncementSent(settings)
                                ELSE settings
                 /\ config_file' = IF outcome = "ok"
                                   THEN Persisted(SendAnnouncementSent(settings))
                                   ELSE config_file
                 /\ last_event' = TaskEvent(AnnouncementResult(outcome), t.sent, i)
  /\ raised' = IF outcome = "error" THEN i ELSE raised
  /\ quiet' = (quiet \/ (JobOf(tasks[i]) = "confirmation_job" /\ outcome = "ok"))
  /\ routed' = << >>
  /\ UNCHANGED <<now, calc, confirmation_message_id, scheduler, schedulers, fired>>
  /\ UNCHANGED cogvars
  /\ UNCHANGED caller

\* mutant: stop clears running and cancels no task
Stop_OnlyClearsRunning ==
  /\ scheduler # 0
  /\ schedulers' = [schedulers EXCEPT ![scheduler].running = FALSE]
  /\ last_event' = Event("stop", "")
  /\ UNCHANGED <<now, calc, settings, config_file, confirmation_message_id,
                 scheduler, tasks, next_message_id, fired, raised, quiet, routed>>
  /\ UNCHANGED cogvars
  /\ UNCHANGED caller

\* JobScheduler.stop called on the scheduler the bot holds: running is
\* cleared and task.cancel() is called on every task of self.tasks, which
\* requests the cancellation of a task that is not done and does nothing to
\* one that is; self.tasks itself is left as it is.
Stop ==
  /\ scheduler # 0
  /\ schedulers' = [schedulers EXCEPT ![scheduler].running = FALSE]
  /\ tasks' = [i \in 1..Len(tasks) |->
                 IF /\ \E k \in 1..Len(schedulers[scheduler].tasks) :
                         schedulers[scheduler].tasks[k] = i
                    /\ tasks[i].pc # "done"
                 THEN [tasks[i] EXCEPT !.cancel = TRUE]
                 ELSE tasks[i]]
  /\ last_event' = Event("stop", "")
  /\ UNCHANGED <<now, calc, settings, config_file, confirmation_message_id,
                 scheduler, next_message_id, fired, raised, quiet, routed>>
  /\ UNCHANGED cogvars
  /\ UNCHANGED caller

\* the CancelledError reaches a task at the await it is suspended in (or
\* before its first step): neither "except discord.DiscordException" in the
\* sender nor "except Exception" around the job catches it, "except
\* asyncio.CancelledError: break" ends the loop.
LoopCancelled(i) ==
  /\ i \in 1..Len(tasks)
  /\ tasks[i].cancel
  /\ tasks[i].pc # "done"
  /\ tasks' = [tasks EXCEPT ![i].pc = "done", ![i].cancel = FALSE,
                            ![i].job = 0, ![i].sent = ""]
  /\ last_event' = TaskEvent("cancelled", tasks[i].pc, i)
  /\ UNCHANGED <<now, calc, settings, config_file, confirmation_message_id,
                 scheduler, schedulers, next_message_id, fired, raised, quiet, routed>>
  /\ UNCHANGED cogvars
  /\ UNCHANGED caller

\* ------------------------------------------------------ events and commands
\* the run of routed reactions with one more reaction, the last MaxRouted kept
Route(emoji) ==
  IF Len(routed) < MaxRouted THEN Append(routed, emoji)
  ELSE Append(Tail(routed), emoji)

\* mutant: every reaction of a user is routed, whatever message it is on
OnReactionAdd_AnyMessage(msg, user_bot, emoji) ==
  /\ IF user_bot
     THEN UNCHANGED <<settings, config_file, routed>>
     ELSE /\ settings' = ProcessConfirmationReaction(emoji, settings)
          /\ config_file' = Persisted(ProcessConfirmationReaction(emoji, settings))
          /\ routed' = Route(emoji)
  /\ last_event' = [NoEvent EXCEPT !.op = "reaction", !.type = emoji,
                                   !.msg = msg, !.bot = user_bot,
                                   !.log = IF user_bot THEN "none"
                                           ELSE ReactionLog(emoji, settings)]
  /\ quiet' = (quiet /\ user_bot)
  /\ UNCHANGED <<now, calc, confirmation_message_id, scheduler, schedulers, tasks,
                 next_message_id, fired, raised>>
  /\ UNCHANGED cogvars
  /\ UNCHANGED caller

\* AnnouncementBot.on_reaction_add
OnReactionAdd(msg, user_bot, emoji) ==
  /\ IF user_bot
     THEN UNCHANGED <<settings, config_file, routed>>
     ELSE IF confirmation_message_id # 0 /\ msg = confirmation_message_id
          THEN /\ settings' = ProcessConfirmationReaction(emoji, settings)
               /\ config_file' = Persisted(ProcessConfirmationReaction(emoji, settings))
               /\ routed' = Route(emoji)
          ELSE UNCHANGED <<settings, config_file, routed>>
  /\ last_event' = [NoEvent EXCEPT !.op = "reaction", !.type = emoji,
                                   !.msg = msg, !.bot = user_bot,
                                   !.log = IF ~user_bot /\ confirmation_message_id # 0
                                              /\ msg = confirmation_message_id
                                           THEN ReactionLog(emoji, settings)
                                           ELSE "none"]
  /\ quiet' = (quiet /\ user_bot)
  /\ UNCHANGED <<now, calc, confirmation_message_id, scheduler, schedulers, tasks,
                 next_message_id, fired, raised>>
  /\ UNCHANGED cogvars
  /\ UNCHANGED caller

\* the lt-speaker / lt-title / lt-url commands with a value, and lt-clear
LtSet(field, value) ==
  /\ settings' = [settings EXCEPT !.lt_info[field] = value]
  /\ last_event' = Event("lt_set", field)
  /\ routed' = << >>
  /\ UNCHANGED <<now, calc, config_file, confirmation_message_id, scheduler,
                 schedulers, tasks, next_message_id, fired, raised, quiet>>
  /\ UNCHANGED cogvars
  /\ UNCHANGED caller

LtClearCommand ==
  /\ settings' = [settings EXCEPT !.lt_info = LtClear(settings.lt_info)]
  /\ last_event' = Event("lt_clear", "")
  /\ routed' = << >>
  /\ UNCHANGED <<now, calc, config_file, confirmation_message_id, scheduler,
                 schedulers, tasks, next_message_id, fired, raised, quiet>>
  /\ UNCHANGED cogvars
  /\ UNCHANGED caller

\* permissions.admin_roles / moderator_roles / lt_admin_roles with the
\* defaults the cogs pass to config.get
AdminRoles(ov) == ConfigGet(ov, "permissions", "admin_roles", {"Administrator"})

ModeratorRoles(ov) == ConfigGet(ov, "permissions", "moderator_roles", {"Moderator"})

LtAdminRoles(ov) == ConfigGet(ov, "permissions", "lt_admin_roles", {"LT"})

\* ConfigCog / ManualCog / UtilityCog._check_admin_permissions: a Member
\* that has a role named in admin_roles + moderator_roles
CheckAdminPermissions_Anyone(ov, user) == TRUE

CheckAdminPermissions(ov, user) ==
  /\ user.member
  /\ \E role \in user.roles : role \in AdminRoles(ov) \cup ModeratorRoles(ov)

\* LTCog._check_lt_admin_permissions: the same with lt_admin_roles added
CheckLtAdminPermissions(ov, user) ==
  /\ user.member
  /\ \E role \in user.roles :
       role \in AdminRoles(ov) \cup ModeratorRoles(ov) \cup LtAdminRoles(ov)

\* LTCog.lt_speaker / lt_title / lt_url: without a value the field is shown;
\* a user without an allowed role is refused; else the value is stored as
\* given through the setter of AnnouncementService
LtCogSet(field, value, user) ==
  /\ frontend = "cog"
  /\ IF value = None
     THEN /\ last_event' = Event("lt_get", field)
          /\ UNCHANGED lt_info
     ELSE IF ~CheckLtAdminPermissions(overrides, user)
     THEN /\ last_event' = Event("lt_denied", field)
          /\ UNCHANGED lt_info
     ELSE /\ last_event' = Event("lt_set", field)
          /\ lt_info' = [lt_info EXCEPT ![field] = value]
  /\ UNCHANGED <<now, calc, settings, config_file, confirmation_message_id,
                 scheduler, schedulers, tasks, next_message_id, fired, raised,
                 quiet, routed, frontend, overrides, scheduled>>
  /\ caller' = user

\* LTCog.lt_info: "not set" when no field is true, else the fields and the
\* status from is_complete
LtCogInfo(user) ==
  /\ frontend = "cog"
  /\ last_event' =
       Event("lt_info",
             IF ~(Truthy(lt_info.speaker_name) \/ Truthy(lt_info.title)
                    \/ Truthy(lt_info.url))
             THEN "unset"
             ELSE IF LTInfoIsComplete(lt_info) THEN "complete" ELSE "incomplete")
  /\ UNCHANGED <<now, calc, settings, config_file, confirmation_message_id,
                 scheduler, schedulers, tasks, next_message_id, fired, raised,
                 quiet, routed, cogvars>>
  /\ caller' = user

\* LTCog.lt_clear
LtCogClear(user) ==
  /\ frontend = "cog"
  /\ IF ~CheckLtAdminPermissions(overrides, user)
     THEN /\ last_event' = Event("lt_denied", "clear")
          /\ UNCHANGED lt_info
     ELSE /\ last_event' = Event("lt_clear", "")
          /\ lt_info' = LTInfoClear(lt_info)
  /\ UNCHANGED <<now, calc, settings, config_file, confirmation_message_id,
                 scheduler, schedulers, tasks, next_message_id, fired, raised,
                 quiet, routed, frontend, overrides, scheduled>>
  /\ caller' = user

\* ------------------------------------------------ announcement service
\* Weekday.to_int: MAP_TO_INT.get(weekday_str, 6)
WeekdayToInt(weekday_str) == WeekdayMapGet(weekday_str, SunDefault)

\* AnnouncementService.get_next_weekday for the date today
GetNextWeekday_AllowsToday(today, weekday_str) ==
  LET days_ahead == WeekdayToInt(weekday_str) - (today % 7)
  IN  today + (IF days_ahead < 0 THEN days_ahead + 7 ELSE days_ahead)

GetNextWeekday(today, weekday_str) ==
  LET days_ahead == WeekdayToInt(weekday_str) - (today % 7)
  IN  today + (IF days_ahead <= 0 THEN days_ahead + 7 ELSE days_ahead)

SpeakerPlaceholder == "speaker-TBD"
TitlePlaceholder == "title-TBD"

\* "a or b" for a str | None
Or(a, b) == IF Truthy(a) THEN a ELSE b

\* mutant: the url of the LT info is used whether it is set or not
GenerateAnnouncementContent_NoUrlFallback(announcement_type, lt, ov) ==
  LET default_url == ConfigGet(ov, "settings", "default_url", "")
  IN  IF announcement_type = REGULAR THEN <<"regular", default_url>>
      ELSE IF announcement_type = LIGHTNING_TALK
      THEN <<"lightning_talk",
             Or(lt.speaker_name, SpeakerPlaceholder),
             Or(lt.title, TitlePlaceholder),
             lt.url>>
      ELSE <<"rest">>

\* AnnouncementService.generate_announcement_content: the key of the
\* template followed by the values substituted for $speaker_name, $title
\* and $url (the lightning talk template), for $url (the regular template),
\* or by nothing (the rest template)
GenerateAnnouncementContent(announcement_type, lt, ov) ==
  LET default_url == ConfigGet(ov, "settings", "default_url", "")
  IN  IF announcement_type = REGULAR THEN <<"regular", default_url>>
      ELSE IF announcement_type = LIGHTNING_TALK
      THEN <<"lightning_talk",
             Or(lt.speaker_name, SpeakerPlaceholder),
             Or(lt.title, TitlePlaceholder),
             Or(lt.url, default_url)>>
      ELSE <<"rest">>

\* the date substituted for $mm/$dd when no target date is given
TargetDate(ov) ==
  GetNextWeekday(DateOf(now), ConfigGet(ov, "settings", "announce_weekday", "Sun"))

\* type_map.get(type.lower(), AnnouncementType.REGULAR)
ManualTypes == {"regular", "lt", "rest", "LT", "weekly"}
Lower(type) == IF type = "LT" THEN "lt" ELSE type
TypeMap(type) ==
  IF Lower(type) = "lt" THEN LIGHTNING_TALK
  ELSE IF Lower(type) = "rest" THEN REST
  ELSE REGULAR

\* what config.get and bot.get_channel give for the channel of a command:
\* no channel id is configured, the id names no channel, or a text channel
ChannelStates == {"unset", "not_found", "ok"}

\* an event of the announcement service, with the content and its date
ServiceEvent(op, type, content) ==
  [NoEvent EXCEPT !.op = op, !.type = type, !.arg = content,
                  !.date = TargetDate(overrides)]

\* mutant: the LT info is cleared after every announcement
ServiceAnnouncementSent_AlwaysClears(announcement_type, lt) == LTInfoClear(lt)

\* AnnouncementService.send_announcement after channel.send returned
ServiceAnnouncementSent(announcement_type, lt) ==
  IF announcement_type = LIGHTNING_TALK THEN LTInfoClear(lt) ELSE lt

\* ManualCog.manual_announce with AnnouncementService.send_announcement:
\* refused without an allowed role, without a channel and for a lightning
\* talk whose info is not complete; else the content is sent, and a send
\* that raises DiscordException is reported as a failure
ManualAnnounce(type, user, channel, outcome) ==
  /\ frontend = "cog"
  /\ IF ~CheckAdminPermissions(overrides, user)
     THEN /\ last_event' = Event("manual_denied", "announce")
          /\ UNCHANGED lt_info
     ELSE IF channel # "ok"
     THEN /\ last_event' = Event("manual_no_channel", channel)
          /\ UNCHANGED lt_info
     ELSE IF TypeMap(type) = LIGHTNING_TALK /\ ~LTInfoIsComplete(lt_info)
     THEN /\ last_event' = Event("manual_rejected", "lt_incomplete")
          /\ UNCHANGED lt_info
     ELSE IF outcome = "ok"
     THEN /\ last_event' =
               ServiceEvent("announcement_sent", TypeMap(type),
                 GenerateAnnouncementContent(TypeMap(type), lt_info, overrides))
          /\ lt_info' = ServiceAnnouncementSent(TypeMap(type), lt_info)
     ELSE /\ last_event' = Event("announcement_failed", outcome)
          /\ UNCHANGED lt_info
  /\ UNCHANGED <<now, calc, settings, config_file, confirmation_message_id,
                 scheduler, schedulers, tasks, next_message_id, fired, raised,
                 quiet, routed, frontend, overrides, scheduled>>
  /\ caller' = user

\* ManualCog.manual_confirm with AnnouncementService.send_confirmation
ManualConfirm(user, channel, outcome) ==
  /\ frontend = "cog"
  /\ last_event' =
       IF ~CheckAdminPermissions(overrides, user) THEN Event("manual_denied", "confirm")
       ELSE IF channel # "ok" THEN Event("manual_no_channel", channel)
       ELSE IF outcome = "ok" THEN ServiceEvent("confirmation_sent", "", << >>)
       ELSE Event("confirmation_failed", outcome)
  /\ UNCHANGED <<now, calc, settings, config_file, confirmation_message_id,
                 scheduler, schedulers, tasks, next_message_id, fired, raised,
                 quiet, routed, cogvars>>
  /\ caller' = user

\* UtilityCog.test_announce: the content is shown to the user who asked,
\* nothing is sent to a channel
TestAnnounce(type, user) ==
  /\ frontend = "cog"
  /\ last_event' =
       IF ~CheckAdminPermissions(overrides, user) THEN Event("preview_denied", "announce")
       ELSE ServiceEvent("preview", TypeMap(type),
              GenerateAnnouncementContent(TypeMap(type), lt_info, overrides))
  /\ UNCHANGED <<now, calc, settings, config_file, confirmation_message_id,
                 scheduler, schedulers, tasks, next_message_id, fired, raised,
                 quiet, routed, cogvars>>
  /\ caller' = user

\* ------------------------------------------------------- ConfigManager calls
\* config.get(section, key, default): the event holds the arguments and the
\* value returned
CfgGet(section, key, default) ==
  /\ frontend = "cog"
  /\ last_event' = [NoEvent EXCEPT !.op = "get",
                      !.arg = <<section, key, default,
                                ConfigGet(overrides, section, key, default)>>]
  /\ UNCHANGED <<now, calc, settings, config_file, confirmation_message_id,
                 scheduler, schedulers, tasks, next_message_id, fired, raised,
                 quiet, routed, cogvars>>
  /\ UNCHANGED caller

\* config.set(section, key, value), which also writes the overrides file
CfgSet(section, key, value) ==
  /\ frontend = "cog"
  /\ overrides' = ConfigSet(overrides, section, key, value)
  /\ last_event' = [NoEvent EXCEPT !.op = "set", !.arg = <<section, key, value>>]
  /\ UNCHANGED <<now, calc, settings, config_file, confirmation_message_id,
                 scheduler, schedulers, tasks, next_message_id, fired, raised,
                 quiet, routed, frontend, scheduled, lt_info>>
  /\ UNCHANGED caller

\* config.reset(), which also removes the overrides file
CfgReset ==
  /\ frontend = "cog"
  /\ overrides' = ConfigReset(overrides)
  /\ last_event' = Event("reset", "")
  /\ UNCHANGED <<now, calc, settings, config_file, confirmation_message_id,
                 scheduler, schedulers, tasks, next_message_id, fired, raised,
                 quiet, routed, frontend, scheduled, lt_info>>
  /\ UNCHANGED caller

\* ------------------------------------------------- schedule setting commands
\* the result of a command, with the argument it was given
CommandEvent(op, which, arg) == [NoEvent EXCEPT !.op = op, !.type = which, !.arg = arg]

\* the settings with the time / the weekday of a job type set
WithTime(s, which, t) ==
  IF which = "confirm" THEN [s EXCEPT !.confirm_time = t]
  ELSE [s EXCEPT !.announce_time = t]

WithWeekday(s, which, w) ==
  IF which = "confirm" THEN [s EXCEPT !.confirm_weekday = w]
  ELSE [s EXCEPT !.announce_weekday = w]

\* settings.x = value followed by settings_manager.save()
StoreSettings(s) ==
  /\ settings' = s
  /\ config_file' = Persisted(s)

\* None for an optional argument of a slash command
NoneArg == <<"None">>

\* SettingsCommands.handle_confirm_time / handle_announce_time: without
\* args the time is shown; else args.strip() is parsed, a text that does not
\* parse is refused and a time that parses is stored and saved.
HandleTime(which, args) ==
  /\ frontend = "prefix"
  /\ IF args = << >>
     THEN /\ last_event' = CommandEvent("time_get", which, args)
          /\ UNCHANGED <<settings, config_file>>
     ELSE IF ParseTime(Strip(args)) = NoTime
     THEN /\ last_event' = CommandEvent("time_rejected", which, args)
          /\ UNCHANGED <<settings, config_file>>
     ELSE /\ last_event' = CommandEvent("time_set", which, args)
          /\ StoreSettings(WithTime(settings, which, ParseTime(Strip(args))))
  /\ UNCHANGED <<now, calc, confirmation_message_id, scheduler, schedulers, tasks,
                 next_message_id, fired, raised, quiet, routed, cogvars>>
  /\ UNCHANGED caller

\* SettingsCommands.handle_action_role
HandleActionRole(args) ==
  /\ frontend = "prefix"
  /\ IF args = << >>
     THEN /\ last_event' = CommandEvent("role_get", "", args)
          /\ UNCHANGED <<settings, config_file>>
     ELSE /\ last_event' = CommandEvent("role_set", "", args)
          /\ StoreSettings([settings EXCEPT !.action_role = Strip(args)])
  /\ UNCHANGED <<now, calc, confirmation_message_id, scheduler, schedulers, tasks,
                 next_message_id, fired, raised, quiet, routed, cogvars>>
  /\ UNCHANGED caller

\* the process is started again: main builds a SettingsManager, loads the
\* settings file and builds the bot with the loaded settings
Restart ==
  /\ frontend \in {"prefix", "slash"}
  /\ settings' = Load(config_file)
  /\ last_event' = Event("load", "")
  /\ quiet' = FALSE
  /\ routed' = << >>
  /\ UNCHANGED <<now, calc, config_file, confirmation_message_id, scheduler,
                 schedulers, tasks, next_message_id, fired, raised, cogvars>>
  /\ UNCHANGED caller

\* SettingsCommands.handle_confirm_weekday / handle_announce_weekday
HandleWeekday(which, args) ==
  /\ frontend = "prefix"
  /\ IF args = << >>
     THEN /\ last_event' = CommandEvent("weekday_get", which, args)
          /\ UNCHANGED <<settings, config_file>>
     ELSE IF ~IsWeekdayText(Strip(args))
     THEN /\ last_event' = CommandEvent("weekday_rejected", which, args)
          /\ UNCHANGED <<settings, config_file>>
     ELSE /\ last_event' = CommandEvent("weekday_set", which, args)
          /\ StoreSettings(WithWeekday(settings, which, WeekdayCode(Strip(args))))
  /\ UNCHANGED <<now, calc, confirmation_message_id, scheduler, schedulers, tasks,
                 next_message_id, fired, raised, quiet, routed, cogvars>>
  /\ UNCHANGED caller

\* TimeTransformer.transform followed by SettingsTimeCommands.confirm_time /
\* announce_time: the transformer raises for a text that does not match and
\* the command never runs; a time object is always true
SlashTime(which, value) ==
  /\ frontend = "slash"
  /\ IF value = NoneArg
     THEN /\ last_event' = CommandEvent("time_get", which, value)
          /\ UNCHANGED <<settings, config_file>>
     ELSE IF ParseTime(value) = NoTime
     THEN /\ last_event' = CommandEvent("time_rejected", which, value)
          /\ UNCHANGED <<settings, config_file>>
     ELSE /\ last_event' = CommandEvent("time_set", which, value)
          /\ StoreSettings(WithTime(settings, which, ParseTime(value)))
  /\ UNCHANGED <<now, calc, confirmation_message_id, scheduler, schedulers, tasks,
                 next_message_id, fired, raised, quiet, routed, cogvars>>
  /\ UNCHANGED caller

\* SettingsWeekdayCommands.confirm_weekday / announce_weekday: the weekday
\* option declares the seven codes as its choices, so Discord delivers one of
\* them or nothing; the command stores what it gets without a check
SlashWeekday(which, value) ==
  /\ frontend = "slash"
  /\ value = NoneArg \/ IsWeekdayText(value)
  /\ IF value = NoneArg
     THEN /\ last_event' = CommandEvent("weekday_get", which, value)
          /\ UNCHANGED <<settings, config_file>>
     ELSE /\ last_event' = CommandEvent("weekday_set", which, value)
          /\ StoreSettings(WithWeekday(settings, which, WeekdayCode(value)))
  /\ UNCHANGED <<now, calc, confirmation_message_id, scheduler, schedulers, tasks,
                 next_message_id, fired, raised, quiet, routed, cogvars>>
  /\ UNCHANGED caller

\* mutant: every change schedules the confirmation task
TaskName_AlwaysConfirmation(which) == "confirmation"

\* the name of the task and the keys of a job type in the config cog
TaskName(which) == IF which = "confirm" THEN "confirmation" ELSE "announcement"
TimeKey(which) == IF which = "confirm" THEN "confirm_time" ELSE "announce_time"
WeekdayKey(which) == IF which = "confirm" THEN "confirm_weekday" ELSE "announce_weekday"
DefaultWeekday(which) == IF which = "confirm" THEN "Thu" ELSE "Sun"

\* ConfigCog.config_time_confirm / config_time_announce: without a time the
\* current value is shown; a user without an allowed role and a text that
\* does not match the pattern are refused; else the text is stored with
\* config.set and the task is scheduled again with it.
ConfigTime(which, time, user) ==
  /\ frontend = "cog"
  /\ Len(scheduled) < MaxCalls
  /\ IF time = NoneArg
     THEN /\ last_event' = CommandEvent("time_get", which, time)
          /\ UNCHANGED <<overrides, scheduled>>
     ELSE IF ~CheckAdminPermissions(overrides, user)
     THEN /\ last_event' = CommandEvent("time_denied", which, time)
          /\ UNCHANGED <<overrides, scheduled>>
     ELSE IF ~CogTimeMatch(time)
     THEN /\ last_event' = CommandEvent("time_rejected", which, time)
          /\ UNCHANGED <<overrides, scheduled>>
     ELSE /\ last_event' = CommandEvent("time_set", which, time)
          /\ overrides' = ConfigSet(overrides, "settings", TimeKey(which), time)
          /\ scheduled' = Append(scheduled,
                 [name    |-> TaskName(which),
                  time    |-> time,
                  weekday |-> ConfigGet(overrides', "settings", WeekdayKey(which),
                                        DefaultWeekday(which))])
  /\ UNCHANGED <<now, calc, settings, config_file, confirmation_message_id,
                 scheduler, schedulers, tasks, next_message_id, fired, raised,
                 quiet, routed, frontend, lt_info>>
  /\ caller' = user

\* ConfigCog.config_weekday_confirm / config_weekday_announce
ConfigWeekday(which, day, user) ==
  /\ frontend = "cog"
  /\ Len(scheduled) < MaxCalls
  /\ IF day = NoneArg
     THEN /\ last_event' = CommandEvent("weekday_get", which, day)
          /\ UNCHANGED <<overrides, scheduled>>
     ELSE IF ~CheckAdminPermissions(overrides, user)
     THEN /\ last_event' = CommandEvent("weekday_denied", which, day)
          /\ UNCHANGED <<overrides, scheduled>>
     ELSE IF ~IsWeekdayText(day)
     THEN /\ last_event' = CommandEvent("weekday_rejected", which, day)
          /\ UNCHANGED <<overrides, scheduled>>
     ELSE /\ last_event' = CommandEvent("weekday_set", which, day)
          /\ overrides' = ConfigSet(overrides, "settings", WeekdayKey(which),
                                    WeekdayCode(day))
          /\ scheduled' = Append(scheduled,
                 [name    |-> TaskName(which),
                  time    |-> ConfigGet(overrides', "settings", TimeKey(which),
                                        <<"2", "1", ":", "3", "0">>),
                  weekday |-> WeekdayCode(day)])
  /\ UNCHANGED <<now, calc, settings, config_file, confirmation_message_id,
                 scheduler, schedulers, tasks, next_message_id, fired, raised,
                 quiet, routed, frontend, lt_info>>
  /\ caller' = user

\* the call schedule_daily_task(name, time, weekday, callback) for a job type
\* with what config.get returns for its time and weekday
ScheduleCall(ov, which) ==
  [name    |-> TaskName(which),
   time    |-> ConfigGet(ov, "settings", TimeKey(which), <<"2", "1", ":", "3", "0">>),
   weekday |-> ConfigGet(ov, "settings", WeekdayKey(which), DefaultWeekday(which))]

\* ConfigCog.config_reset: refused without an allowed role; else the
\* overrides are dropped and both tasks are scheduled again with what
\* config.get then returns
ConfigResetCommand(user) ==
  /\ frontend = "cog"
  /\ Len(scheduled) < MaxCalls
  /\ IF ~CheckAdminPermissions(overrides, user)
     THEN /\ last_event' = Event("reset_denied", "")
          /\ UNCHANGED <<overrides, scheduled>>
     ELSE /\ last_event' = Event("config_reset", "")
          /\ overrides' = ConfigReset(overrides)
          /\ scheduled' = scheduled \o <<ScheduleCall(overrides', "confirm"),
                                         ScheduleCall(overrides', "announce")>>
  /\ UNCHANGED <<now, calc, settings, config_file, confirmation_message_id,
                 scheduler, schedulers, tasks, next_message_id, fired, raised,
                 quiet, routed, frontend, lt_info>>
  /\ caller' = user

\* the clock advances one tick; a due task runs first, and at most MaxSlow
\* sends are still in flight when it does
Tick ==
  /\ now < MaxTime
  /\ \A i \in 1..Len(tasks) : ~Due(tasks[i])
  /\ Cardinality({i \in 1..Len(tasks) : tasks[i].pc = "await"}) <= MaxSlow
  /\ now' = now + 1
  /\ last_event' = Event("tick", "")
  /\ UNCHANGED <<calc, settings, config_file, confirmation_message_id, scheduler,
                 schedulers, tasks, next_message_id, fired, raised, quiet, routed>>
  /\ UNCHANGED cogvars
  /\ UNCHANGED caller

NoCalc == [done |-> FALSE, at |-> 0, weekday |-> "Mon", time |-> 0, next_run |-> 0]

\* ---------------------------------------------------------- calculator spec
\* The recurrence calculation applied to every instant of MaxCalcDay days
\* and every valid weekday + HH:MM target.
InitCalc ==
  /\ now \in 0..(MaxCalcDay * TicksPerDay - 1)
  /\ \E w \in WeekdayNames, tm \in MinuteTimes :
       calc = [done |-> FALSE, at |-> 0, weekday |-> w, time |-> tm, next_run |-> 0]
  /\ BotInit
  /\ frontend = "prefix"

ComputeNextRun ==
  /\ ~calc.done
  /\ calc' = [calc EXCEPT !.done = TRUE,
                          !.at = now,
                          !.next_run = NextRun(now, WeekdayMapGet(calc.weekday, ThuDefault),
                                               calc.time)]
  /\ UNCHANGED <<now, botvars>>

NextCalc == ComputeNextRun

SpecCalc == InitCalc /\ [][NextCalc]_vars

\* ---------------------------------------------------------------- bot spec
Init ==
  /\ now = 0
  /\ calc = NoCalc
  /\ BotInit
  /\ frontend = "prefix"

MessageIds == 1..2

Next ==
  \/ OnReady
  \/ \E i \in 1..Len(tasks) : LoopIterate(i)
  \/ \E i \in 1..Len(tasks), f \in BOOLEAN : LoopWake(i, f)
  \/ \E i \in 1..Len(tasks), o \in Outcomes : JobEnd(i, o)
  \/ \E m \in MessageIds, b \in BOOLEAN, e \in Emojis : OnReactionAdd(m, b, e)
  \/ Tick

Spec == Init /\ [][Next]_vars

\* the loops under the scheduling of the asyncio event loop: a task that can
\* run does run, the clock advances and an awaited send comes to an end
Fairness ==
  /\ WF_vars(Tick)
  /\ \A i \in 1..(2 * MaxReady) :
       /\ WF_vars(LoopIterate(i))
       /\ WF_vars(\E f \in BOOLEAN : LoopWake(i, f))
       /\ WF_vars(\E o \in Outcomes : JobEnd(i, o))

\* the loops alone: ready events, the loop steps and the clock
NextLoops ==
  \/ OnReady
  \/ \E i \in 1..Len(tasks) : LoopIterate(i)
  \/ \E i \in 1..Len(tasks), f \in BOOLEAN : LoopWake(i, f)
  \/ \E i \in 1..Len(tasks), o \in Outcomes : JobEnd(i, o)
  \/ Tick

SpecLoops == Init /\ [][NextLoops]_vars /\ Fairness

\* the loops of a bot whose config file may hold a weekday that is no string
InitConfig ==
  /\ now = 0
  /\ calc = NoCalc
  /\ \E cw \in {"Thu", UnhashableWeekday}, aw \in {"Sun", UnhashableWeekday} :
       /\ settings = [DefaultSettings(1, 1) EXCEPT !.confirm_weekday = cw,
                                                   !.announce_weekday = aw]
       /\ config_file = Persisted(settings)
  /\ confirmation_message_id = 0
  /\ scheduler = 0
  /\ schedulers = << >>
  /\ tasks = << >>
  /\ next_message_id = 1
  /\ fired = [jt \in JobTypes |-> NeverFired]
  /\ raised = 0
  /\ quiet = FALSE
  /\ routed = << >>
  /\ frontend = "prefix"
  /\ overrides = EmptyMap
  /\ scheduled = << >>
  /\ lt_info = NoLTInfo
  /\ caller = NoUser
  /\ last_event = NoEvent

SpecConfig == InitConfig /\ [][NextLoops]_vars /\ Fairness

\* the loops with JobScheduler.stop called on the scheduler of the bot
NextStop ==
  \/ NextLoops
  \/ Stop
  \/ \E i \in 1..Len(tasks) : LoopCancelled(i)

SpecStop == Init /\ [][NextStop]_vars

\* ---------------------------------------------------------- settings spec
\* The commands that write the schedule settings, for each of the command
\* modules of the repository, given well-formed and malformed arguments.
Frontends == {"prefix", "slash", "cog"}

TimeTexts ==
  { <<"0", "0", ":", "0", "1">>,
    <<"0", "9", ":", "0", "5">>,
    <<"2", "3", ":", "5", "9">>,
    <<"9", ":", "3", "0">>,
    <<"0", "9", ":", "0", "5", "\n">>,
    <<" ", "0", "9", ":", "0", "5">>,
    <<"2", "4", ":", "0", "0">>,
    <<"1", "2", ":", "6", "0">>,
    <<"2", "5", ":", "7", "0">>,
    <<"1", "2", "3", "0">>,
    <<" ">>,
    << >> }

WeekdayTexts ==
  { <<"M", "o", "n">>,
    <<"S", "u", "n">>,
    <<" ", "S", "u", "n">>,
    <<"m", "o", "n">>,
    <<"M", "o", "n", "d", "a", "y">>,
    << >> }

InitSettings ==
  /\ now = 0
  /\ calc = NoCalc
  /\ BotInit
  /\ frontend \in Frontends

NextSettings ==
  \/ \E w \in JobTypes, a \in TimeTexts : HandleTime(w, a)
  \/ \E w \in JobTypes, a \in WeekdayTexts : HandleWeekday(w, a)
  \/ \E w \in JobTypes, a \in TimeTexts \cup {NoneArg} : SlashTime(w, a)
  \/ \E w \in JobTypes, a \in WeekdayTexts \cup {NoneArg} : SlashWeekday(w, a)
  \/ \E w \in JobTypes, a \in TimeTexts \cup {NoneArg}, u \in Users :
       ConfigTime(w, a, u)
  \/ \E w \in JobTypes, a \in WeekdayTexts \cup {NoneArg}, u \in Users :
       ConfigWeekday(w, a, u)
  \/ \E u \in Users : ConfigResetCommand(u)

SpecSettings == InitSettings /\ [][NextSettings]_vars

\* ------------------------------------------------------ ConfigManager spec
\* ConfigManager on its own: get, set and reset for keys that the base
\* configuration has and keys that it has not, in a section it has and in
\* one it has not.
CfgSections == {"settings", "channels"}
CfgKeys == {"confirm_time", "confirm_weekday", "announce_channel_id"}

\* the values of a key: the one of the base configuration and another
CfgValues(key) ==
  IF key = "confirm_time"
  THEN {<<"2", "1", ":", "3", "0">>, <<"2", "0", ":", "0", "0">>}
  ELSE IF key = "confirm_weekday" THEN {"Thu", "Mon"}
  ELSE {"1", "2"}

InitManager ==
  /\ now = 0
  /\ calc = NoCalc
  /\ BotInit
  /\ frontend = "cog"

NextManager ==
  \/ \E sec \in CfgSections, k \in CfgKeys : \E d \in CfgValues(k) : CfgGet(sec, k, d)
  \/ \E sec \in CfgSections, k \in CfgKeys : \E v \in CfgValues(k) : CfgSet(sec, k, v)
  \/ CfgReset

SpecManager == InitManager /\ [][NextManager]_vars

\* ----------------------------------------------------------- LT info spec
\* The commands that write the lightning-talk fields, in the bot that keeps
\* them in BotSettings.lt_info and in the bot that keeps them in LTInfo.
LtFields == {"speaker", "title", "url"}
LTInfoFields == {"speaker_name", "title", "url"}
LtTexts == {"", "A"}

InitLtInfo ==
  /\ now = 0
  /\ calc = NoCalc
  /\ BotInit
  /\ frontend \in {"prefix", "cog"}

NextLtInfo ==
  \/ \E f \in LtFields, v \in LtTexts : frontend = "prefix" /\ LtSet(f, v)
  \/ frontend = "prefix" /\ LtClearCommand
  \/ \E f \in LTInfoFields, v \in LtTexts \cup {None}, u \in Users :
       LtCogSet(f, v, u)
  \/ \E u \in Users : LtCogInfo(u)
  \/ \E u \in Users : LtCogClear(u)

SpecLtInfo == InitLtInfo /\ [][NextLtInfo]_vars

\* ------------------------------------------------------------ sender spec
\* The jobs, the reaction handlers and the LT commands called directly on
\* the bot as constructed, one call at a time and each run to its end.
MaxMessages == 2

\* mutant: the pending type is reset and the settings are saved whether
\* the send succeeded or not
AnnouncementJob_ResetsOnFailure(found, outcome) ==
  /\ outcome \in Outcomes
  /\ LET r == SendAnnouncementBegin(settings, found)
     IN  IF r \in {"no_channel", "not_found", "lt_incomplete"}
         THEN /\ outcome = "ok"
              /\ last_event' = Event("announcement_skipped", r)
              /\ UNCHANGED <<settings, config_file>>
         ELSE /\ settings' = SendAnnouncementSent(settings)
              /\ config_file' = Persisted(SendAnnouncementSent(settings))
              /\ last_event' = Event(AnnouncementResult(outcome), r)
  /\ quiet' = FALSE
  /\ routed' = << >>
  /\ UNCHANGED <<now, calc, confirmation_message_id, scheduler, schedulers, tasks,
                 next_message_id, fired, raised>>
  /\ UNCHANGED cogvars
  /\ UNCHANGED caller

\* ScheduledJobs.announcement_job run to its end
AnnouncementJob(found, outcome) ==
  /\ outcome \in Outcomes
  /\ LET r == SendAnnouncementBegin(settings, found)
     IN  IF r \in {"no_channel", "not_found", "lt_incomplete"}
         THEN /\ outcome = "ok"
              /\ last_event' = Event("announcement_skipped", r)
              /\ UNCHANGED <<settings, config_file>>
         ELSE /\ settings' = IF outcome = "ok" THEN SendAnnouncementSent(settings)
                             ELSE settings
              /\ config_file' = IF outcome = "ok"
                                THEN Persisted(SendAnnouncementSent(settings))
                                ELSE config_file
              /\ last_event' = Event(AnnouncementResult(outcome), r)
  /\ quiet' = FALSE
  /\ routed' = << >>
  /\ UNCHANGED <<now, calc, confirmation_message_id, scheduler, schedulers, tasks,
                 next_message_id, fired, raised>>
  /\ UNCHANGED cogvars
  /\ UNCHANGED caller

\* mutant: the confirmation job sets the pending type back to REGULAR
ConfirmationJob_ResetsType(found, outcome) ==
  /\ outcome \in Outcomes
  /\ next_message_id <= MaxMessages
  /\ LET r == SendConfirmationBegin(settings, found)
     IN  IF r \in {"no_channel", "not_found"}
         THEN /\ outcome = "ok"
              /\ last_event' = Event("confirmation_skipped", r)
              /\ UNCHANGED next_message_id
         ELSE /\ next_message_id' = IF outcome = "ok" THEN next_message_id + 1
                                    ELSE next_message_id
              /\ last_event' = Event(ConfirmationResult(outcome), "")
  /\ quiet' = (quiet \/ last_event'.op = "confirmation_sent")
  /\ routed' = << >>
  /\ settings' = [settings EXCEPT !.next_event_type = REGULAR]
  /\ UNCHANGED <<now, calc, config_file, confirmation_message_id, scheduler,
                 schedulers, tasks, fired, raised>>
  /\ UNCHANGED cogvars
  /\ UNCHANGED caller

\* ScheduledJobs.confirmation_job run to its end
ConfirmationJob(found, outcome) ==
  /\ outcome \in Outcomes
  /\ next_message_id <= MaxMessages
  /\ LET r == SendConfirmationBegin(settings, found)
     IN  IF r \in {"no_channel", "not_found"}
         THEN /\ outcome = "ok"
              /\ last_event' = Event("confirmation_skipped", r)
              /\ UNCHANGED next_message_id
         ELSE /\ next_message_id' = IF outcome = "ok" THEN next_message_id + 1
                                    ELSE next_message_id
              /\ last_event' = Event(ConfirmationResult(outcome), "")
  /\ quiet' = (quiet \/ last_event'.op = "confirmation_sent")
  /\ routed' = << >>
  /\ UNCHANGED <<now, calc, settings, config_file, confirmation_message_id, scheduler,
                 schedulers, tasks, fired, raised>>
  /\ UNCHANGED cogvars
  /\ UNCHANGED caller

\* AnnouncementSender.process_confirmation_reaction called on the settings
\* for a reaction to a confirmation message that was sent
ProcessReaction(emoji) ==
  /\ next_message_id > 1
  /\ settings' = ProcessConfirmationReaction(emoji, settings)
  /\ last_event' = [Event("process_reaction", emoji) EXCEPT
                      !.log = ReactionLog(emoji, settings)]
  /\ quiet' = FALSE
  /\ routed' = Route(emoji)
  /\ UNCHANGED <<now, calc, config_file, confirmation_message_id, scheduler,
                 schedulers, tasks, next_message_id, fired, raised>>
  /\ UNCHANGED cogvars
  /\ UNCHANGED caller

NextSender ==
  \/ \E f \in BOOLEAN, o \in Outcomes : AnnouncementJob(f, o)
  \/ \E f \in BOOLEAN, o \in Outcomes : ConfirmationJob(f, o)
  \/ \E e \in Emojis : ProcessReaction(e)
  \/ \E m \in MessageIds, b \in BOOLEAN, e \in Emojis : OnReactionAdd(m, b, e)
  \/ \E v \in Speakers : LtSet("speaker", v)
  \/ \E v \in Titles : LtSet("title", v)
  \/ \E v \in Urls : LtSet("url", v)
  \/ LtClearCommand

SpecSender == Init /\ [][NextSender]_vars

\* ------------------------------------------------------- persistence spec
\* The bot with the settings file: commands that store a setting and save,
\* the runtime state set by reactions and LT commands, and the restart of
\* the process, which loads the file.
SavedTimeTexts ==
  { <<"0", "9", ":", "0", "5">>,
    <<"2", "3", ":", "5", "9">>,
    <<"2", "5", ":", "7", "0">> }

SavedWeekdayTexts == { <<"M", "o", "n">>, <<"m", "o", "n">> }

RoleTexts == { << >>, <<" ", "@", "M">> }

InitPersist ==
  /\ now = 0
  /\ calc = NoCalc
  /\ BotInit
  /\ frontend \in {"prefix", "slash"}

NextPersist ==
  \/ \E w \in JobTypes, a \in SavedTimeTexts : HandleTime(w, a)
  \/ \E w \in JobTypes, a \in SavedWeekdayTexts : HandleWeekday(w, a)
  \/ \E a \in RoleTexts : HandleActionRole(a)
  \/ \E w \in JobTypes, a \in SavedTimeTexts : SlashTime(w, a)
  \/ \E w \in JobTypes, a \in SavedWeekdayTexts : SlashWeekday(w, a)
  \/ \E v \in Speakers : LtSet("speaker", v)
  \/ ConfirmationJob(TRUE, "ok")
  \/ ProcessReaction("zap")
  \/ Restart

SpecPersist == InitPersist /\ [][NextPersist]_vars

\* ------------------------------------------------------- announcement spec
\* The announcements of both bots: the jobs, reactions and LT commands of
\* the bot with AnnouncementSender, and the LT, manual and preview commands
\* of the bot with AnnouncementService.
NextService ==
  \/ \E f \in LTInfoFields, v \in LtTexts \cup {None}, u \in Users :
       LtCogSet(f, v, u)
  \/ \E u \in Users : LtCogInfo(u)
  \/ \E u \in Users : LtCogClear(u)
  \/ \E t \in ManualTypes, u \in Users, c \in ChannelStates, o \in Outcomes :
       ManualAnnounce(t, u, c, o)
  \/ \E u \in Users, c \in ChannelStates, o \in Outcomes : ManualConfirm(u, c, o)
  \/ \E t \in ManualTypes, u \in Users : TestAnnounce(t, u)

NextAnnounce ==
  \/ frontend = "prefix" /\ NextSender
  \/ NextService

SpecAnnounce == InitLtInfo /\ [][NextAnnounce]_vars

\* ---------------------------------------------------------- next weekday
\* AnnouncementService.get_next_weekday called on any day with the weekday
\* codes and with texts that are no code
WeekdayCodes == WeekdayNames \cup {"sun", "Sunday", ""}

GetNextWeekdayCall(weekday_str) ==
  /\ frontend = "cog"
  /\ last_event' = [NoEvent EXCEPT !.op = "next_weekday", !.type = weekday_str,
                      !.date = GetNextWeekday(DateOf(now), weekday_str)]
  /\ UNCHANGED <<now, calc, settings, config_file, confirmation_message_id,
                 scheduler, schedulers, tasks, next_message_id, fired, raised,
                 quiet, routed, cogvars, caller>>

InitWeekday ==
  /\ now \in 0..(MaxCalcDay * TicksPerDay - 1)
  /\ calc = NoCalc
  /\ BotInit
  /\ frontend = "cog"

NextWeekday == \E w \in WeekdayCodes : GetNextWeekdayCall(w)

SpecWeekday == InitWeekday /\ [][NextWeekday]_vars

\* --------------------------------------------------------- reschedule spec
\* The loops of one scheduler while the time and weekday commands of the
\* prefix bot change the schedule of the confirmation.
ScheduleTimeTexts == {<<"0", "0", ":", "0", "0">>, <<"0", "0", ":", "0", "1">>}
ScheduleWeekdayTexts == {<<"M", "o", "n">>, <<"F", "r", "i">>}

NextReschedule ==
  \/ Len(schedulers) = 0 /\ OnReady
  \/ \E i \in 1..Len(tasks) : LoopIterate(i)
  \/ \E i \in 1..Len(tasks) : LoopWake(i, TRUE)
  \/ \E i \in 1..Len(tasks) : JobEnd(i, "ok")
  \/ \E a \in ScheduleTimeTexts : HandleTime("confirm", a)
  \/ \E a \in ScheduleWeekdayTexts : HandleWeekday("confirm", a)
  \/ Tick

SpecReschedule == Init /\ [][NextReschedule]_vars

\* -------------------------------------------------------- two loops spec
\* The two loops of one scheduler for an announcement weekday before, on
\* and after the confirmation weekday, with sends that fail or never end:
\* the event loop runs every task that can run, and no send has to end.
InitTwoLoops ==
  /\ now = 0
  /\ calc = NoCalc
  /\ BotInit
  /\ frontend = "prefix"
  /\ settings.action_channel_id = 1
  /\ settings.announce_channel_id = 1

AnnounceWeekdayTexts == {<<"T", "u", "e">>, <<"T", "h", "u">>}

NextTwoLoops ==
  \/ Len(schedulers) = 0 /\ now = 0 /\ OnReady
  \/ \E a \in AnnounceWeekdayTexts :
       Len(schedulers) = 0 /\ now = 0 /\ HandleWeekday("announce", a)
  \/ \E i \in 1..Len(tasks) : LoopIterate(i)
  \/ \E i \in 1..Len(tasks) : LoopWake(i, TRUE)
  \/ \E i \in 1..Len(tasks), o \in Outcomes : JobEnd(i, o)
  \/ Tick

FairnessTwoLoops ==
  /\ WF_vars(Tick)
  /\ \A i \in 1..2 :
       /\ WF_vars(LoopIterate(i))
       /\ WF_vars(LoopWake(i, TRUE))

SpecTwoLoops == InitTwoLoops /\ [][NextTwoLoops]_vars /\ FairnessTwoLoops

\* ------------------------------------------------------------- jobs spec
\* One JobScheduler with any number of jobs added per job type before it is
\* started.
JobLists ==
  { << >>,
    <<"confirmation_job", "announcement_job">>,
    <<"announcement_job", "confirmation_job", "confirmation_job">> }

\* JobScheduler(settings), add_confirmation_job / add_announcement_job for
\* each job of the lists, and start()
StartJobs(confirm_jobs, announce_jobs) ==
  /\ Len(schedulers) = 0
  /\ schedulers' = <<[NewScheduler(1) EXCEPT
                        !.jobs = [confirm |-> confirm_jobs, announce |-> announce_jobs]]>>
  /\ scheduler' = 1
  /\ tasks' = <<NewTask("confirm", 1), NewTask("announce", 1)>>
  /\ last_event' = Event("start", "")
  /\ UNCHANGED <<now, calc, settings, config_file, confirmation_message_id,
                 next_message_id, fired, raised, quiet, routed, cogvars, caller>>

NextJobs ==
  \/ \E cj \in JobLists, aj \in JobLists : StartJobs(cj, aj)
  \/ \E i \in 1..Len(tasks) : LoopIterate(i)
  \/ \E i \in 1..Len(tasks), f \in BOOLEAN : LoopWake(i, f)
  \/ \E i \in 1..Len(tasks), o \in Outcomes : JobEnd(i, o)
  \/ Tick

SpecJobs == Init /\ [][NextJobs]_vars

\* ------------------------------------------------------------- cog spec
\* The commands of the cogs that change the configuration, the LT info or
\* the schedule or that send to a channel, called by users with and
\* without the roles the cogs ask for.
CogTimeTexts == {<<"0", "9", ":", "0", "5">>, <<"2", "5", ":", "7", "0">>}
CogWeekdayTexts == {<<"M", "o", "n">>, << >>}

InitCog ==
  /\ now = 0
  /\ calc = NoCalc
  /\ BotInit
  /\ frontend = "cog"

NextCog ==
  \/ \E w \in JobTypes, a \in CogTimeTexts \cup {NoneArg}, u \in Users :
       ConfigTime(w, a, u)
  \/ \E w \in JobTypes, a \in CogWeekdayTexts \cup {NoneArg}, u \in Users :
       ConfigWeekday(w, a, u)
  \/ \E u \in Users : ConfigResetCommand(u)
  \/ \E v \in {"A", None}, u \in Users : LtCogSet("speaker_name", v, u)
  \/ \E u \in Users : LtCogInfo(u)
  \/ \E u \in Users : LtCogClear(u)
  \/ \E t \in {"regular", "lt"}, u \in Users, c \in ChannelStates :
       ManualAnnounce(t, u, c, "ok")
  \/ \E u \in Users, c \in ChannelStates : ManualConfirm(u, c, "ok")

SpecCog == InitCog /\ [][NextCog]_vars

\* ----------------------------------------------------------- scheduler loops
\* C1: one scheduled occurrence of a job makes its callback fire once, never
\* twice, after any sequence of ready events and scheduler starts (at most
\* one loop per job name is live).
C1_FiresOncePerOccurrence == \A jt \in JobTypes : fired[jt].count <= 1

\* a job of the loop of task i raised an exception, a week or more before the
\* end of the window
JobRaised(i) ==
  /\ last_event.op = "job_raised"
  /\ last_event.task = i
  /\ now + 7 * TicksPerDay + GuardSleep <= MaxTime

\* the loop of task i calls its jobs
JobsCalled(i) == last_event.op = "wake" /\ last_event.task = i

\* C6: an exception raised by a job never stops the loop of that job: the
\* loop is not ended by it, and it calls its jobs again at a later occurrence.
C6_JobExceptionKeepsLoop ==
  /\ [](raised # 0 => tasks[raised].pc # "done")
  /\ \A i \in 1..(2 * MaxReady) : JobRaised(i) ~> JobsCalled(i)

\* a loop whose job raised has called its jobs again
C6_Witness == raised # 0 /\ JobsCalled(raised)

\* the tasks a scheduler holds in self.tasks that are not done
LiveTasks(k) ==
  {i \in 1..Len(tasks) :
     /\ \E j \in 1..Len(schedulers[k].tasks) : schedulers[k].tasks[j] = i
     /\ tasks[i].pc # "done"}

\* C16: after the scheduler was stopped (cancelAll), every task it held that
\* was not finished is cancelled and its task registry is empty; a second
\* call changes nothing.
C16_CancelAllEmptiesRegistry ==
  (last_event.op = "stop" /\ scheduler # 0)
    => /\ \A i \in LiveTasks(scheduler) : tasks[i].cancel
       /\ schedulers[scheduler].tasks = << >>

\* C17 as claimed: an exception raised while the next fire instant is
\* computed ends the loop of that job for good (no retry).
C17_CalculatorExceptionIsFatal ==
  last_event.op = "calc_raised" => tasks[last_event.task].pc = "done"

\* the loop of task i failed to compute its next fire instant, at its first
\* attempt of an iteration and with time left for another one
CalcRaised(i) ==
  /\ last_event.op = "calc_raised"
  /\ last_event.task = i
  /\ last_event.type # "retry"
  /\ now + RetrySleep <= MaxTime

\* the loop of task i computed again after the pause, and failed again
CalcRetried(i) ==
  /\ last_event.op = "calc_raised"
  /\ last_event.task = i
  /\ last_event.type = "retry"

\* C17 amended: an exception raised while the next fire instant is computed
\* is caught and reported as an error, the loop is not ended by it, and after
\* a pause the loop computes the next fire instant again.
C17_CalculatorExceptionRetried ==
  /\ [](last_event.op = "calc_raised"
          => /\ last_event.log = "error"
             /\ tasks[last_event.task].pc = "retry"
             /\ tasks[last_event.task].wake = now + RetrySleep)
  /\ [][\A i \in 1..Len(tasks) :
          (tasks[i].pc = "retry" /\ tasks'[i] # tasks[i])
            => (tasks[i].wake <= now /\ tasks'[i].pc = "retry")]_vars
  /\ \A i \in 1..(2 * MaxReady) : CalcRaised(i) ~> CalcRetried(i)

\* a computation failed again after the pause that followed a failed one
C17_Witness ==
  /\ last_event.op = "calc_raised"
  /\ last_event.type = "retry"
  /\ tasks[last_event.task].pc = "retry"
  /\ tasks[last_event.task].wake > RetrySleep

\* ------------------------------------------------------- announcement job
\* C7: whenever the announcement job has run with the channel available and
\* no failure of Discord, the pending event type is Regular after the job
\* returned, whatever the pending type and the LT info it ran with.
C7_RegularAfterAnnouncementJob ==
  (\/ last_event.op = "announcement_sent"
   \/ last_event.op = "announcement_skipped"
        /\ last_event.type \notin {"no_channel", "not_found"})
    => settings.next_event_type = REGULAR

C9_ConfirmationIdRecorded ==
  last_event.op = "confirmation_sent"
    => confirmation_message_id = next_message_id - 1

\* C10: a reaction on a message other than the pending confirmation message,
\* or by a bot, leaves the pending event type and the LT info unchanged.
C10_ForeignReactionChangesNothing ==
  [][(/\ last_event'.op = "reaction"
      /\ last_event'.bot \/ last_event'.msg # confirmation_message_id)
       => /\ settings'.next_event_type = settings.next_event_type
          /\ settings'.lt_info = settings.lt_info]_vars

\* a user reacted with a recognised emoji to a message that is not the pending
\* confirmation message, while a lightning talk with a speaker was pending
C10_Witness ==
  /\ last_event.op = "reaction"
  /\ ~last_event.bot
  /\ last_event.msg # confirmation_message_id
  /\ last_event.type = "thumbsup"
  /\ settings.next_event_type = LIGHTNING_TALK
  /\ settings.lt_info.speaker # ""

\* the event type an emoji stands for on the confirmation message
EmojiType(emoji) ==
  CASE emoji = "thumbsup" -> REGULAR
    [] emoji = "zap" -> LIGHTNING_TALK
    [] emoji = "zzz" -> REST
    [] OTHER -> "none"

\* C11: a routed reaction sets the pending event type by its emoji, from any
\* prior type: thumbs-up Regular, lightning LightningTalk, sleep Rest; any
\* other emoji leaves the pending event type unchanged.
C11_ReactionSetsTypeByEmoji ==
  [][last_event'.op = "process_reaction"
       => settings'.next_event_type =
            IF EmojiType(last_event'.type) = "none" THEN settings.next_event_type
            ELSE EmojiType(last_event'.type)]_vars

\* the sleep emoji was routed and the type is Rest with a speaker still set
\* (so the type was LightningTalk or the LT info was being prepared)
C11_Witness ==
  /\ last_event.op = "process_reaction"
  /\ last_event.type = "zzz"
  /\ settings.next_event_type = REST
  /\ settings.lt_info.speaker # ""

\* the last recognised emoji of a run of reactions, "none" without one
RECURSIVE LastRecognised(_)
LastRecognised(seq) ==
  IF seq = << >> THEN "none"
  ELSE IF EmojiType(seq[Len(seq)]) # "none" THEN seq[Len(seq)]
  ELSE LastRecognised(SubSeq(seq, 1, Len(seq) - 1))

\* C12: after a run of routed reactions with at least one recognised emoji,
\* the pending event type is the type of the last recognised emoji of the run
\* (last write wins), whatever the reactions before it.
C12_LastRecognisedReactionWins ==
  LastRecognised(routed) # "none"
    => settings.next_event_type = EmojiType(LastRecognised(routed))

\* a lightning reaction after a sleep reaction: the type is LightningTalk
C12_Witness ==
  /\ Len(routed) >= 2
  /\ routed[Len(routed) - 1] = "zzz"
  /\ routed[Len(routed)] = "zap"
  /\ settings.next_event_type = LIGHTNING_TALK

\* C13: when no user reacted between the sending of a confirmation message
\* and the next firing of the announcement job, the announcement that this
\* firing sends is of the Regular type.
C13_NoReactionAnnouncesRegular ==
  [][(quiet /\ last_event'.op = "announcement_sent")
       => last_event'.type = REGULAR]_vars

\* C14: an announcement job that fires with pending type LightningTalk and
\* incomplete LT info still sends an announcement (with placeholders for the
\* missing fields): it never ends without sending because of the LT info.
C14_IncompleteLtStillAnnounced ==
  ~(last_event.op = "announcement_skipped" /\ last_event.type = "lt_incomplete")

\* C15: a routed lightning reaction always moves the pending type to
\* LightningTalk, and a warning is surfaced exactly when the LT info is
\* incomplete at that moment.
C15_IncompleteLtReactionWarns ==
  (last_event.op = "process_reaction" /\ last_event.type = "zap")
    => /\ settings.next_event_type = LIGHTNING_TALK
       /\ (last_event.log = "warning") <=> ~LtIsComplete(settings.lt_info)

\* ------------------------------------------------ schedule setting commands
\* the texts that denote a time of day: an hour 0..23 of one or two digits,
\* a colon and a minute 00..59
ValidTimeTexts ==
  {FormatTime(TimeValue(h, m)) : h \in 0..23, m \in 0..59}
    \cup {Tail(FormatTime(TimeValue(h, m))) : h \in 0..9, m \in 0..59}

DenotesTime(str) == Strip(str) \in ValidTimeTexts

TimeWriteOps == {"time_set", "time_rejected", "time_denied"}
WeekdayWriteOps == {"weekday_set", "weekday_rejected", "weekday_denied"}

\* a command asked to store a text that denotes no time of day, or a text
\* that is none of the seven weekday codes
InvalidWrite(e) ==
  \/ e.op \in TimeWriteOps /\ ~DenotesTime(e.arg)
  \/ e.op \in WeekdayWriteOps /\ ~IsWeekdayText(Strip(e.arg))

IsHHMM(str) ==
  /\ Len(str) = 5
  /\ \A k \in {1, 2, 4, 5} : IsDigit(str[k])
  /\ str[3] = ":"
  /\ DigitVal(str[1]) * 10 + DigitVal(str[2]) <= 23
  /\ DigitVal(str[4]) * 10 + DigitVal(str[5]) <= 59

\* the time texts and the weekdays in the settings file and in the overrides
StoredTimes ==
  {config_file.confirm_time, config_file.announce_time}
    \cup {ConfigGet(overrides, "settings", TimeKey(w), << >>) : w \in JobTypes}

StoredWeekdays ==
  {config_file.confirm_weekday, config_file.announce_weekday}
    \cup {ConfigGet(overrides, "settings", WeekdayKey(w), "") : w \in JobTypes}

\* C19: every time stored by a successful time command has exactly the
\* shape HH:MM, and every stored weekday is one of Mon .. Sun.
C19_StoredValuesWellFormed ==
  /\ \A t \in StoredTimes : IsHHMM(t)
  /\ StoredWeekdays \subseteq WeekdayNames

\* ------------------------------------------------------------- LT info
\* a field that is present and non-empty
Present(v) == v # None /\ v # ""

\* C20: is_complete holds exactly when speaker, title and url are all three
\* present and non-empty, for LightningTalkInfo and for LTInfo.
C20_IsCompleteIffAllPresent ==
  /\ LtIsComplete(settings.lt_info)
       <=> (\A f \in LtFields : Present(settings.lt_info[f]))
  /\ LTInfoIsComplete(lt_info)
       <=> (\A f \in LTInfoFields : Present(lt_info[f]))

\* the LT info the running bot keeps, its fields and its is_complete
CurrentLt == IF frontend = "cog" THEN lt_info ELSE settings.lt_info
CurrentLtFields == IF frontend = "cog" THEN LTInfoFields ELSE LtFields
CurrentLtComplete ==
  IF frontend = "cog" THEN LTInfoIsComplete(lt_info) ELSE LtIsComplete(settings.lt_info)

\* C21: clear resets speaker, title and url to absent whatever they were, so
\* that is_complete is false afterwards, and a clear that follows a clear
\* changes nothing.
C21_ClearResetsAllFields ==
  [][last_event'.op = "lt_clear"
       => /\ \A f \in CurrentLtFields' : ~Present(CurrentLt'[f])
          /\ ~CurrentLtComplete'
          /\ last_event.op = "lt_clear" => CurrentLt' = CurrentLt]_vars

C21_Witness ==
  /\ frontend = "cog"
  /\ last_event.op = "lt_clear"
  /\ lt_info = NoLTInfo

\* an announcement of a type has just been sent to the channel
AnnouncementSent(e, types) == e.op = "announcement_sent" /\ e.type \in types

LtRendered(e) ==
  /\ frontend = "cog"
  /\ e.op \in {"preview", "announcement_sent"}
  /\ e.type = LIGHTNING_TALK

\* C23: a rendered LightningTalk announcement holds the speaker placeholder
\* exactly when the speaker is absent (unset or empty) and the title
\* placeholder exactly when the title is absent, the LT url when there is
\* one and else the default URL; a field that is there appears as it is,
\* and rendering a preview changes no state.
C23_LtRenderingPlaceholders ==
  [][LtRendered(last_event')
       => /\ (last_event'.arg[2] = SpeakerPlaceholder) <=> ~Present(lt_info.speaker_name)
          /\ Present(lt_info.speaker_name) => last_event'.arg[2] = lt_info.speaker_name
          /\ (last_event'.arg[3] = TitlePlaceholder) <=> ~Present(lt_info.title)
          /\ Present(lt_info.title) => last_event'.arg[3] = lt_info.title
          /\ last_event'.arg[4] = IF Present(lt_info.url) THEN lt_info.url
                                  ELSE BaseConfig.settings.default_url
          /\ last_event'.op = "preview"
               => UNCHANGED <<lt_info, overrides, scheduled, settings>>]_vars

C23_Witness ==
  /\ LtRendered(last_event)
  /\ last_event.op = "preview"
  /\ lt_info = [speaker_name |-> "A", title |-> None, url |-> ""]
  /\ last_event.arg = <<"lightning_talk", "A", TitlePlaceholder, "https://default">>

\* ------------------------------------------------------------ persistence
RuntimeFields == {"lt_info", "next_event_type"}

\* C24: what save wrote and load reads back gives the same persisted fields
\* (times, weekdays, role, default URL, channel ids) as the settings that
\* were saved; the runtime fields are never written, so the loaded settings
\* have the pending type Regular and an empty LT info.
C24_SaveLoadRoundTrip ==
  /\ [](/\ config_file = Persisted(settings)
        /\ DOMAIN config_file \cap RuntimeFields = {})
  /\ [][last_event'.op = "load"
          => /\ \A k \in (DOMAIN settings) \ RuntimeFields : settings'[k] = settings[k]
             /\ settings'.next_event_type = REGULAR
             /\ settings'.lt_info = EmptyLtInfo]_vars

C24_Witness ==
  /\ last_event.op = "load"
  /\ settings.confirm_time = TimeValue(9, 5)
  /\ settings.announce_time = TimeValue(23, 59)
  /\ settings.announce_weekday = "Mon"
  /\ next_message_id > 1
  /\ settings.action_role = <<"@", "M">>
  /\ settings.action_channel_id = 1

\* what is stored for a key of the settings section: the override, else the
\* value of the base configuration
StoredSetting(ov, key) ==
  IF "settings" \in DOMAIN ov /\ key \in DOMAIN ov["settings"]
  THEN ov["settings"][key]
  ELSE BaseConfig.settings[key]

\* the task of a job type as it has to be scheduled after a change
Rescheduled(ov, which) ==
  IF which = "confirm"
  THEN [name    |-> "confirmation",
        time    |-> StoredSetting(ov, "confirm_time"),
        weekday |-> StoredSetting(ov, "confirm_weekday")]
  ELSE [name    |-> "announcement",
        time    |-> StoredSetting(ov, "announce_time"),
        weekday |-> StoredSetting(ov, "announce_weekday")]

\* C27: every successful change of a time or a weekday through a config
\* command schedules the task of that job type again with the time and the
\* weekday now stored, and a reset drops the overrides and schedules both
\* tasks again with the default values.
C27_ChangeReschedulesTask ==
  [][/\ (frontend = "cog" /\ last_event'.op \in {"time_set", "weekday_set"})
          => scheduled' = Append(scheduled, Rescheduled(overrides', last_event'.type))
     /\ last_event'.op = "config_reset"
          => /\ overrides' = EmptyMap
             /\ scheduled' = scheduled \o
                   <<[name |-> "confirmation", time |-> <<"2", "1", ":", "3", "0">>,
                      weekday |-> "Thu"],
                     [name |-> "announcement", time |-> <<"2", "1", ":", "3", "0">>,
                      weekday |-> "Sun"]>>]_vars

C27_Witness ==
  /\ last_event.op = "config_reset"
  /\ Len(scheduled) = 3
  /\ scheduled[1].name = "announcement"
  /\ scheduled[1].weekday = "Mon"

C26_OverridesDifferFromBase ==
  /\ \A section \in DOMAIN overrides : \A key \in DOMAIN overrides[section] :
       HasKey(BaseConfig, section, key)
         => overrides[section][key] # BaseConfig[section][key]
  /\ (/\ last_event.op = "set"
      /\ HasKey(BaseConfig, last_event.arg[1], last_event.arg[2])
      /\ last_event.arg[3] = BaseConfig[last_event.arg[1]][last_event.arg[2]])
       => ~HasKey(overrides, last_event.arg[1], last_event.arg[2])

C26_Witness ==
  /\ last_event.op = "set"
  /\ last_event.arg = <<"settings", "confirm_weekday", "Thu">>
  /\ HasKey(overrides, "settings", "confirm_time")
  /\ ~HasKey(overrides, "settings", "confirm_weekday")

\* ------------------------------------------------- recurrence calculation
CalcTargetWeekday == WEEKDAY_MAP[calc.weekday]

\* C2: the next fire instant computed by the loop is strictly greater than
\* the instant "now" it was computed from, for every now and valid target.
C2_NextRunAfterNow == calc.done => calc.next_run > calc.at

C2_Witness == calc.done /\ calc.next_run = calc.at + 1

\* C3: when the target weekday is today and the target time is not later
\* than the time of day of now (the exact minute included), the next fire
\* instant is the target time on the date 7 days after today.
C3_PassedTodayRollsAWeek ==
  (calc.done /\ CalcTargetWeekday = WeekdayOf(calc.at) /\ calc.time <= TimeOf(calc.at))
    => calc.next_run = Combine(DateOf(calc.at) + 7, calc.time)

C3_Witness ==
  calc.done /\ CalcTargetWeekday = WeekdayOf(calc.at) /\ calc.time = TimeOf(calc.at)

\* C4: when the target weekday is today and the target time is later than
\* the time of day of now, the next fire instant is today at the target time.
C4_LaterTodayFiresToday ==
  (calc.done /\ CalcTargetWeekday = WeekdayOf(calc.at) /\ calc.time > TimeOf(calc.at))
    => calc.next_run = Combine(DateOf(calc.at), calc.time)

C4_Witness ==
  calc.done /\ CalcTargetWeekday = WeekdayOf(calc.at) /\ calc.time > TimeOf(calc.at)

\* C5: when the target weekday is not today, the next fire instant falls on
\* the target weekday, 1 to 6 days after today's date.
C5_OtherWeekdayWithinSixDays ==
  (calc.done /\ CalcTargetWeekday # WeekdayOf(calc.at))
    => /\ WeekdayOf(calc.next_run) = CalcTargetWeekday
       /\ DateOf(calc.next_run) - DateOf(calc.at) \in 1..6
       /\ TimeOf(calc.next_run) = calc.time

C5_Witness ==
  /\ calc.done
  /\ CalcTargetWeekday # WeekdayOf(calc.at)
  /\ DateOf(calc.next_run) - DateOf(calc.at) = 6

\* C28: a command that changes state, called by a user who holds none of
\* the roles the command allows (administrator or moderator, and for the LT
\* commands also LT administrator), changes no configuration, no LT info
\* and no schedule and sends nothing to a channel; a command that only
\* reads a value is never refused.
LtCommandOps == {"lt_get", "lt_denied", "lt_set", "lt_clear", "lt_info"}

ReadOps == {"time_get", "weekday_get", "lt_get", "lt_info"}

ChannelSendOps ==
  {"announcement_sent", "announcement_failed", "confirmation_sent",
   "confirmation_failed"}

RolesAllowedFor(e) ==
  IF e.op \in LtCommandOps THEN {"Administrator", "Moderator", "LT"}
  ELSE {"Administrator", "Moderator"}

C28_NoRoleNoChange ==
  [][/\ caller'.roles \cap RolesAllowedFor(last_event') = {}
          => /\ UNCHANGED <<overrides, scheduled, lt_info, settings, config_file>>
             /\ last_event'.op \notin ChannelSendOps
             /\ last_event'.op \in ReadOps
                  \/ last_event'.op \in {"time_denied", "weekday_denied", "reset_denied",
                                        "lt_denied", "manual_denied"}
     /\ last_event'.op \in {"time_denied", "weekday_denied"}
          => last_event'.arg # NoneArg]_vars

C28_Witness ==
  /\ caller = [member |-> TRUE, roles |-> {"LT"}]
  /\ last_event.op = "manual_denied"
  /\ last_event.type = "announce"
  /\ lt_info.speaker_name = "A"
  /\ Len(scheduled) > 0

\* C29: a manual announce of type lt while a field of the LT info is missing
\* is rejected, so no lightning-talk announcement is sent unless speaker,
\* title and url are all present, and the rejection leaves the LT info as
\* it was; a manual announce is rejected for missing LT info only.
C29_IncompleteLtRejected ==
  [][frontend = "cog"
       => /\ AnnouncementSent(last_event', {LIGHTNING_TALK})
               => \A f \in LTInfoFields : Present(lt_info[f])
          /\ last_event'.op = "manual_rejected"
               => /\ lt_info' = lt_info
                  /\ \E f \in LTInfoFields : ~Present(lt_info[f])]_vars

\* C30: for every today and every weekday code, get_next_weekday returns a
\* date on that weekday (Monday 0 .. Sunday 6) that lies 1 to 7 days after
\* today, never today; a text that is no code gives what "Sun" gives.
WeekdayOrder == <<"Mon", "Tue", "Wed", "Thu", "Fri", "Sat", "Sun">>

WeekdayNumber(w) ==
  IF \E i \in 1..7 : WeekdayOrder[i] = w
  THEN (CHOOSE i \in 1..7 : WeekdayOrder[i] = w) - 1
  ELSE 6

C30_NextWeekdayInOneToSevenDays ==
  last_event.op = "next_weekday"
    => /\ last_event.date % 7 = WeekdayNumber(last_event.type)
       /\ last_event.date \in (DateOf(now) + 1)..(DateOf(now) + 7)
       /\ last_event.date # DateOf(now)

C30_Witness ==
  /\ last_event.op = "next_weekday"
  /\ last_event.type = "Wed"
  /\ DateOf(now) = 2
  /\ last_event.date = 9

\* C31: once a scheduler is stopped, no loop it started calls a job any
\* more, and a loop that the cancellation reaches while it is suspended in a
\* sleep (or before its first step) ends without calling its jobs.
C31_NoCallbackAfterStop ==
  [][\A i \in 1..Len(tasks) :
       /\ (last_event'.op = "wake" /\ last_event'.task = i)
            => schedulers[tasks[i].sched].running
       /\ (last_event'.op = "cancelled" /\ last_event'.task = i)
            => /\ tasks'[i].pc = "done"
               /\ fired' = fired
               /\ UNCHANGED <<settings, config_file, next_message_id>>]_vars

C31_Witness ==
  /\ last_event.op = "cancelled"
  /\ last_event.type = "sleep"
  /\ ~schedulers[tasks[last_event.task].sched].running
  /\ tasks[last_event.task].pc = "done"
  /\ fired[tasks[last_event.task].job_type] = NeverFired
  /\ tasks[last_event.task].wake = now
  /\ now > 0

\* C32: a loop that starts to sleep has computed its wake-up from the
\* weekday and time the settings hold at that moment; a command that changes
\* them while the loop sleeps leaves the pending wake-up as it is, and the
\* jobs are called at the instant computed before, not earlier or later.
C32_RescheduleOnNextComputation ==
  [][\A i \in 1..Len(tasks) :
       /\ (tasks'[i].pc = "sleep" /\ tasks[i].pc # "sleep")
            => tasks'[i].wake =
                 IF tasks[i].job_type = "confirm"
                 THEN NextRun(now, WeekdayMapGet(settings.confirm_weekday, ThuDefault),
                              settings.confirm_time)
                 ELSE NextRun(now, WeekdayMapGet(settings.announce_weekday, SunDefault),
                              settings.announce_time)
       /\ last_event'.op \in {"time_set", "weekday_set"} => tasks' = tasks
       /\ (last_event'.op = "wake" /\ last_event'.task = i)
            => /\ tasks[i].pc = "sleep"
               /\ tasks[i].wake = now
               /\ fired'[tasks[i].job_type].occurrence = tasks[i].wake]_vars

\* the confirmation fired on the Thursday computed before the weekday was
\* set to Monday and the time to 00:00
C32_Witness ==
  /\ last_event.op = "wake"
  /\ Len(tasks) > 0
  /\ tasks[last_event.task].job_type = "confirm"
  /\ settings.confirm_weekday = "Mon"
  /\ settings.confirm_time = 0
  /\ fired["confirm"].occurrence = Combine(ThuDefault, DefaultTime)
  /\ fired["confirm"].count = 1

\* C33: a loop never calls its jobs twice for one scheduled instant and
\* replays no missed occurrence: every wake-up it computes, also after a job
\* however long and the guard sleep, is later than the moment of the
\* computation, and when the schedule is the one of the last firing and the
\* job took less than a week, it is 7 days after that firing.
C33_NoDoubleFireNoReplay ==
  /\ [](\A jt \in JobTypes : fired[jt].count <= 1)
  /\ [][\A i \in 1..Len(tasks) :
          (tasks'[i].pc = "sleep" /\ tasks[i].pc # "sleep")
            => LET last == fired[tasks[i].job_type].occurrence
                   weekday == IF tasks[i].job_type = "confirm"
                              THEN settings.confirm_weekday
                              ELSE settings.announce_weekday
                   time == IF tasks[i].job_type = "confirm"
                           THEN settings.confirm_time ELSE settings.announce_time
               IN  /\ tasks'[i].wake > now
                   /\ tasks'[i].wake > last
                   /\ (/\ last >= 0
                       /\ VALID_WEEKDAYS[WeekdayOf(last) + 1] = weekday
                       /\ TimeOf(last) = time
                       /\ now < last + 7 * TicksPerDay)
                        => tasks'[i].wake = last + 7 * TicksPerDay]_vars

\* the loop of the confirmation sleeps until a week after its last firing
C33_Witness ==
  /\ Len(tasks) > 0
  /\ tasks[1].pc = "sleep"
  /\ fired["confirm"].count = 1
  /\ tasks[1].wake = fired["confirm"].occurrence + 7 * TicksPerDay
  /\ settings.confirm_time = 0

\* C34: the two loops are independent: a loop that sleeps until an instant
\* of the window calls its jobs at that instant, whatever the job of the
\* other loop does (fails, takes long, never ends), and its firing changes
\* nothing of the other loop.
C34_LoopsIndependent ==
  /\ [][\A i \in 1..Len(tasks) :
          (last_event'.op = "wake" /\ last_event'.task = i)
            => /\ tasks[i].wake = now
               /\ \A j \in 1..Len(tasks) : j # i => tasks'[j] = tasks[j]]_vars
  /\ \A i \in 1..2 :
       (Len(tasks) >= i /\ tasks[i].pc = "sleep" /\ tasks[i].wake <= MaxTime)
         ~> (last_event.op = "wake" /\ last_event.task = i)

\* the announcement fires while the send of the confirmation, begun on an
\* earlier day, has not come to an end
C34_Witness ==
  /\ last_event.op = "wake"
  /\ Len(tasks) = 2
  /\ last_event.task = 2
  /\ tasks[1].pc = "await"
  /\ fired["confirm"].count = 1
  /\ fired["confirm"].occurrence < fired["announce"].occurrence

\* C35: an announcement that cannot be sent (no channel configured, channel
\* not found, send raising, LT info refused before the send) leaves the
\* pending event type and the LT info as they were and saves no settings.
AnnouncementNotSentOps ==
  {"announcement_skipped", "announcement_failed", "job_raised",
   "manual_no_channel", "manual_rejected"}

C35_FailedAnnouncementChangesNothing ==
  [][last_event'.op \in AnnouncementNotSentOps
       => /\ settings'.next_event_type = settings.next_event_type
          /\ settings'.lt_info = settings.lt_info
          /\ lt_info' = lt_info
          /\ config_file' = config_file
          /\ overrides' = overrides]_vars

C35_Witness ==
  /\ frontend = "prefix"
  /\ last_event.op = "announcement_failed"
  /\ settings.next_event_type = LIGHTNING_TALK
  /\ LtIsComplete(settings.lt_info)
  /\ config_file = Persisted(settings)

\* C36: the confirmation job (and the manual confirmation), whether its
\* message was sent, failed or was not attempted, leaves the pending event
\* type and the LT info as they were.
ConfirmationOps ==
  {"confirmation_sent", "confirmation_failed", "confirmation_skipped"}

C36_ConfirmationKeepsTypeAndLtInfo ==
  [][(\/ last_event'.op \in ConfirmationOps
      \/ last_event'.op = "job_raised" /\ last_event'.type = "")
       => /\ settings'.next_event_type = settings.next_event_type
          /\ settings'.lt_info = settings.lt_info
          /\ lt_info' = lt_info]_vars

C36_Witness ==
  /\ frontend = "prefix"
  /\ last_event.op = "confirmation_sent"
  /\ next_message_id > 2
  /\ settings.next_event_type = REST
  /\ settings.lt_info.speaker # ""

\* C37: the jobs registered for a job type are called in the order of their
\* registration, one at a time: while a job is awaited the jobs called so
\* far in the firing are the ones before it and itself, a job is called only
\* at the wake-up or when the job before it is over, a job that raised is
\* followed by the next job of the list in the same firing, and at the guard
\* sleep every job of the list has been called once.
FirstJobs(n) == [k \in 1..n |-> k]

C37_JobsRunInRegistrationOrder ==
  /\ [](\A i \in 1..Len(tasks) :
          LET n == Len(schedulers[tasks[i].sched].jobs[tasks[i].job_type])
          IN  /\ tasks[i].pc = "await"
                   => tasks[i].job \in 1..n /\ tasks[i].ran = FirstJobs(tasks[i].job)
              /\ tasks[i].pc = "guard" => tasks[i].ran = FirstJobs(n))
  /\ [][\A i \in 1..Len(tasks) :
          LET n == Len(schedulers[tasks[i].sched].jobs[tasks[i].job_type])
          IN  /\ Len(tasks'[i].ran) > Len(tasks[i].ran)
                   => \/ tasks[i].pc = "sleep" /\ last_event'.op = "wake"
                      \/ tasks[i].pc = "await" /\ last_event'.task = i
                           /\ last_event'.op \notin {"wake", "iterate"}
              /\ (last_event'.op = "job_raised" /\ last_event'.task = i
                     /\ tasks[i].job < n)
                   => /\ tasks'[i].pc \in {"await", "guard"}
                      /\ Len(tasks'[i].ran) > Len(tasks[i].ran)]_vars

\* the first job of the announcement loop raised and the second one is in
\* flight
C37_Witness ==
  /\ last_event.op = "job_raised"
  /\ Len(tasks) = 2
  /\ last_event.task = 2
  /\ tasks[2].pc = "await"
  /\ tasks[2].job = 2
  /\ tasks[2].ran = <<1, 2>>
  /\ Len(schedulers[1].jobs["announce"]) = 3

\* C38: after any sequence of set and reset the overrides hold no empty
\* section: a section is among the overrides only while it holds a key.
C38_NoEmptySection ==
  \A section \in DOMAIN overrides : DOMAIN overrides[section] # {}
====
